---------------------------- MODULE Spec2Model ----------------------------
(***************************************************************************)
(* A model of the marl-forecast-game engine: the immutable state and its   *)
(* transition (framework/types.py), the disturbance and defense registries *)
(* (framework/disturbances.py, framework/defenses.py), the agents and the  *)
(* safe executor (framework/agents.py) and the round loop of ForecastGame  *)
(* (framework/game.py).                                                    *)
(*                                                                         *)
(* Scalars are binary64 floats in the source.  Here a scalar is an integer *)
(* count of 1/Scale units (fixed point), so 0.4 is 400 and 0.05 is 50; a   *)
(* product of two scalars is Mul, a quotient is Div, both rounding toward  *)
(* zero (sign-symmetric, like IEEE-754 rounding).                          *)
(***************************************************************************)
EXTENDS Integers, Sequences, FiniteSets, TLC

\* ------------------------------------------------------------------------
\* Bounds of the model
\* ------------------------------------------------------------------------

\* Largest max_rounds / horizon base a configuration of the model carries.
MaxRounds == 2

\* ------------------------------------------------------------------------
\* Fixed-point scalars
\* ------------------------------------------------------------------------

Scale == 10 * 100

Abs(x) == IF x < 0 THEN -x ELSE x

Sgn(x) == IF x < 0 THEN -1 ELSE IF x > 0 THEN 1 ELSE 0

Max2(a, b) == IF a >= b THEN a ELSE b

Min2(a, b) == IF a <= b THEN a ELSE b

\* a * b of two scalars, rounded toward zero.
Mul(a, b) == Sgn(a) * Sgn(b) * ((Abs(a) * Abs(b)) \div Scale)

\* a / n for a scalar a and a positive integer count n, rounded toward zero.
DivN(a, n) == Sgn(a) * (Abs(a) \div n)

\* Optional values: None is the empty tuple, Some(x) the one-element tuple.
None == << >>

Some(x) == << x >>

\* The empty mapping (types.py _EMPTY_MAPPING).
EmptyMapping == [k \in {} |-> 0]

\* ------------------------------------------------------------------------
\* random.Random: the engine's stream (game.py line 93)
\*
\* The generator is a full-period congruential generator on RngMod states;
\* random() steps it and returns state/RngMod in [0,1).  gauss() is the
\* library's Box-Muller pair: it takes two uniforms, returns the cosine
\* branch and keeps the sine branch in gauss_next for the next call.
\* ------------------------------------------------------------------------

RngMod == 2 * 4

RngStep(x) == (5 * x + 3) % RngMod

\* Random(seed): the state after seeding.
RandomSeeded(seed) == [x |-> seed % RngMod, gauss_next |-> None]

\* rng.random(): <<value in [0, Scale), generator after the call>>.
RandomUnit(rng) ==
    LET nx == RngStep(rng.x)
    IN  [val |-> (nx * Scale) \div RngMod, rng |-> [rng EXCEPT !.x = nx]]

\* cos(2*pi*k/8) and sin(2*pi*k/8) for the eight uniforms k/8.
CosTab == << 1000, 707, 0, -707, -1000, -707, 0, 707 >>

SinTab == << 0, 707, 1000, 707, 0, -707, -1000, -707 >>

\* sqrt(-2 ln(1 - k/8)).
RadTab == << 0, 517, 758, 970, 1177, 1401, 1665, 2039 >>

\* rng.gauss(mu, sigma).
RandomGauss(rng, mu, sigma) ==
    IF rng.gauss_next # None
    THEN [val |-> mu + Mul(rng.gauss_next[1], sigma),
          rng |-> [rng EXCEPT !.gauss_next = None]]
    ELSE LET d1 == RandomUnit(rng)
             d2 == RandomUnit(d1.rng)
             k1 == d1.rng.x + 1
             k2 == d2.rng.x + 1
             z  == Mul(CosTab[k1], RadTab[k2])
             zn == Mul(SinTab[k1], RadTab[k2])
         IN  [val |-> mu + Mul(z, sigma),
              rng |-> [d2.rng EXCEPT !.gauss_next = Some(zn)]]

\* ------------------------------------------------------------------------
\* framework/types.py
\* ------------------------------------------------------------------------

ForecastState(t, value, exogenous, hidden_shift) ==
    [t |-> t, value |-> value, exogenous |-> exogenous,
     hidden_shift |-> hidden_shift, segment_id |-> "",
     segment_values |-> EmptyMapping, macro_context |-> EmptyMapping]

AgentAction(actor, delta) == [actor |-> actor, delta |-> delta]

ConfidenceInterval(lower, upper) == [lower |-> lower, upper |-> upper]

\* SimulationConfig.__post_init__: the checks a configuration must pass.
ValidConfig(c) ==
    /\ c.horizon >= 0
    /\ c.max_rounds >= 0
    /\ c.max_round_timeout_s > 0
    /\ c.base_noise_std >= 0
    /\ 0 <= c.disturbance_prob /\ c.disturbance_prob <= Scale
    /\ c.disturbance_scale >= 0
    /\ c.adversarial_intensity >= 0
    /\ c.attack_cost >= 0

\* The defaults of SimulationConfig's fields.
DefaultConfig ==
    [horizon |-> 100, max_rounds |-> 200, max_round_timeout_s |-> 1000,
     base_noise_std |-> 150, disturbance_prob |-> 100,
     disturbance_scale |-> 1000, adversarial_intensity |-> 1000,
     runtime_backend |-> "python", disturbance_model |-> "gaussian",
     defense_model |-> << "dampening" >>, enable_refactor |-> TRUE,
     enable_llm_refactor |-> FALSE, attack_cost |-> 0]

RECURSIVE MacroSum(_, _, _)
\* The loop of evolve_state over coeff_map's items, keys taken from ks.
MacroSum(ks, coeff_map, macro_context) ==
    IF ks = {} THEN 0
    ELSE LET k == CHOOSE x \in ks : TRUE
             term == IF k \in DOMAIN macro_context
                     THEN Mul(coeff_map[k], macro_context[k]) ELSE 0
         IN  term + MacroSum(ks \ {k}, coeff_map, macro_context)

\* A faulty variant of evolve_state: the macro contribution is left out and
\* hidden_shift accumulates.
evolve_state_no_macro(state, base_trend, noise, disturbance, coeff_map) ==
    [state EXCEPT !.t = state.t + 1,
                  !.value = state.value + base_trend + Mul(400, state.exogenous)
                            + noise + disturbance,
                  !.exogenous = Mul(600, state.exogenous) + Mul(200, disturbance),
                  !.hidden_shift = state.hidden_shift + disturbance]

\* evolve_state(state, base_trend=, noise=, disturbance=, coeff_map=).
evolve_state(state, base_trend, noise, disturbance, coeff_map) ==
    LET macro_contribution ==
            IF coeff_map # None /\ state.macro_context # EmptyMapping
            THEN MacroSum(DOMAIN coeff_map, coeff_map, state.macro_context)
            ELSE 0
        new_value == state.value + base_trend + Mul(400, state.exogenous)
                     + noise + disturbance + macro_contribution
        new_exogenous == Mul(600, state.exogenous) + Mul(200, disturbance)
    IN  [state EXCEPT !.t = state.t + 1, !.value = new_value,
                      !.exogenous = new_exogenous,
                      !.hidden_shift = disturbance]

\* ------------------------------------------------------------------------
\* framework/disturbances.py
\*
\* A sample is [val, rng, draws]: the value returned, the generator after
\* the call, and the calls made on the generator, in order.
\* ------------------------------------------------------------------------

NoDraw(rng) == [val |-> 0, rng |-> rng, draws |-> << >>]

GaussianDisturbance_sample(state, rng, config) ==
    LET u == RandomUnit(rng)
    IN  IF u.val <= config.disturbance_prob
        THEN LET g == RandomGauss(u.rng, 0,
                        Mul(config.disturbance_scale, config.adversarial_intensity))
             IN  [val |-> g.val, rng |-> g.rng, draws |-> << "random", "gauss" >>]
        ELSE [val |-> 0, rng |-> u.rng, draws |-> << "random" >>]

\* A faulty variant of ShiftDisturbance.sample: a probability of 0 returns
\* at once, without the uniform draw.
ShiftDisturbance_sample_shortcut(state, rng, config) ==
    IF config.disturbance_prob = 0 THEN NoDraw(rng)
    ELSE LET u == RandomUnit(rng)
         IN  [val |-> IF u.val <= config.disturbance_prob
                      THEN Mul(350, config.adversarial_intensity) ELSE 0,
              rng |-> u.rng, draws |-> << "random" >>]

ShiftDisturbance_sample(state, rng, config) ==
    LET u == RandomUnit(rng)
    IN  [val |-> IF u.val <= config.disturbance_prob
                 THEN Mul(350, config.adversarial_intensity) ELSE 0,
         rng |-> u.rng, draws |-> << "random" >>]

EvasionDisturbance_sample(state, rng, config) ==
    LET u == RandomUnit(rng)
        sign == IF state.value >= 0 THEN 1 ELSE -1
    IN  [val |-> IF u.val <= config.disturbance_prob
                 THEN Mul(Mul(sign * config.disturbance_scale, 200),
                          config.adversarial_intensity)
                 ELSE 0,
         rng |-> u.rng, draws |-> << "random" >>]

VolatilityScaledDisturbance_sample(state, rng, config) ==
    LET u == RandomUnit(rng)
        dynamic_scale == Max2(50, Abs(state.hidden_shift) + Abs(state.exogenous))
    IN  IF u.val > config.disturbance_prob
        THEN [val |-> 0, rng |-> u.rng, draws |-> << "random" >>]
        ELSE LET g == RandomGauss(u.rng, 0,
                        Mul(Mul(config.disturbance_scale, dynamic_scale),
                            config.adversarial_intensity))
             IN  [val |-> g.val, rng |-> g.rng, draws |-> << "random", "gauss" >>]

\* RegimeShiftDisturbance.every_n_steps
every_n_steps == 12

RegimeShiftDisturbance_sample(state, rng, config) ==
    IF every_n_steps <= 0 THEN NoDraw(rng)
    ELSE IF ~(state.t > 0 /\ state.t % every_n_steps = 0) THEN NoDraw(rng)
    ELSE LET u == RandomUnit(rng)
         IN  IF u.val <= config.disturbance_prob
             THEN LET v == RandomUnit(u.rng)
                      sign == IF v.val < 500 THEN -1 ELSE 1
                  IN  [val |-> Mul(sign * 800, config.adversarial_intensity),
                       rng |-> v.rng, draws |-> << "random", "random" >>]
             ELSE [val |-> 0, rng |-> u.rng, draws |-> << "random" >>]

VolatilityBurstDisturbance_sample(state, rng, config) ==
    LET u == RandomUnit(rng)
    IN  IF u.val > config.disturbance_prob
        THEN [val |-> 0, rng |-> u.rng, draws |-> << "random" >>]
        ELSE LET scale == Mul(Mul(config.disturbance_scale,
                                  config.adversarial_intensity), 2500)
                 g == RandomGauss(u.rng, 0, scale)
             IN  [val |-> g.val, rng |-> g.rng, draws |-> << "random", "gauss" >>]

DriftDisturbance_sample(state, rng, config) ==
    LET u == RandomUnit(rng)
        direction == IF state.exogenous >= 0 THEN 1 ELSE -1
    IN  [val |-> IF u.val > config.disturbance_prob THEN 0
                 ELSE Mul(direction * 30 * (state.t + 1),
                          config.adversarial_intensity),
         rng |-> u.rng, draws |-> << "random" >>]

\* disturbance_from_name: the class a (normalized) name resolves to.
disturbance_from_name(name) ==
    CASE name \in {"gaussian", "default"} -> "GaussianDisturbance"
      [] name \in {"shift", "regime_shift_basic"} -> "ShiftDisturbance"
      [] name \in {"evasion", "evasion_like"} -> "EvasionDisturbance"
      [] name \in {"volatility", "volatility_scaled", "vol_scaled"}
            -> "VolatilityScaledDisturbance"
      [] name \in {"regime_shift", "regime"} -> "RegimeShiftDisturbance"
      [] name \in {"volatility_burst", "burst"} -> "VolatilityBurstDisturbance"
      [] name \in {"drift", "systematic_drift"} -> "DriftDisturbance"
      [] OTHER -> "GaussianDisturbance"

\* self.disturbance.sample(state, rng, config), dispatched on the class.
DisturbanceSample(cls, state, rng, config) ==
    CASE cls = "GaussianDisturbance" -> GaussianDisturbance_sample(state, rng, config)
      [] cls = "ShiftDisturbance" -> ShiftDisturbance_sample(state, rng, config)
      [] cls = "EvasionDisturbance" -> EvasionDisturbance_sample(state, rng, config)
      [] cls = "VolatilityScaledDisturbance"
            -> VolatilityScaledDisturbance_sample(state, rng, config)
      [] cls = "RegimeShiftDisturbance"
            -> RegimeShiftDisturbance_sample(state, rng, config)
      [] cls = "VolatilityBurstDisturbance"
            -> VolatilityBurstDisturbance_sample(state, rng, config)
      [] OTHER -> DriftDisturbance_sample(state, rng, config)

\* ------------------------------------------------------------------------
\* framework/defenses.py
\*
\* A defense name is its sequence of tokens: words, ":" and ",", already
\* stripped and lower-cased ("stack:clipping,dampening" is
\* << "stack", ":", "clipping", ",", "dampening" >>).
\* ------------------------------------------------------------------------

DampeningDefense == [cls |-> "DampeningDefense", dampening |-> 600]

ClippingDefense(clip) == [cls |-> "ClippingDefense", clip |-> clip]

BiasGuardDefense(max_bias) == [cls |-> "BiasGuardDefense", max_bias |-> max_bias]

EnsembleDefense ==
    [cls |-> "EnsembleDefense", dampening |-> DampeningDefense,
     clipping |-> ClippingDefense(250), bias_guard |-> BiasGuardDefense(120)]

\* A faulty variant of StackedDefense: the two models exchanged.
StackedDefenseSwapped(first, second) ==
    [cls |-> "StackedDefense", first |-> second, second |-> first]

StackedDefense(first, second) ==
    [cls |-> "StackedDefense", first |-> first, second |-> second]

DampeningDefense_defend(d, forecast_delta, adversary_delta) ==
    -Mul(adversary_delta, d.dampening)
        - Mul(100, Max2(-1000, Min2(1000, forecast_delta)))

\* A faulty variant of ClippingDefense.defend: the correction is not clipped.
ClippingDefense_defend_unclipped(d, forecast_delta, adversary_delta) ==
    -adversary_delta

\* A faulty variant of ClippingDefense.defend: the adversary's delta is
\* clipped without being negated.
ClippingDefense_defend_unsigned(d, forecast_delta, adversary_delta) ==
    Max2(-d.clip, Min2(d.clip, adversary_delta))

ClippingDefense_defend(d, forecast_delta, adversary_delta) ==
    Max2(-d.clip, Min2(d.clip, -adversary_delta))

BiasGuardDefense_defend(d, forecast_delta, adversary_delta) ==
    IF Abs(adversary_delta) < d.max_bias THEN -adversary_delta
    ELSE IF adversary_delta > 0 THEN -d.max_bias ELSE d.max_bias

EnsembleDefense_defend(d, forecast_delta, adversary_delta) ==
    DivN(DampeningDefense_defend(d.dampening, forecast_delta, adversary_delta)
         + ClippingDefense_defend(d.clipping, forecast_delta, adversary_delta)
         + BiasGuardDefense_defend(d.bias_guard, forecast_delta, adversary_delta),
         3)

RECURSIVE Defend(_, _, _)
\* defense.defend(forecast_delta, adversary_delta), dispatched on the class.
Defend(d, forecast_delta, adversary_delta) ==
    CASE d.cls = "DampeningDefense"
            -> DampeningDefense_defend(d, forecast_delta, adversary_delta)
      [] d.cls = "ClippingDefense"
            -> ClippingDefense_defend(d, forecast_delta, adversary_delta)
      [] d.cls = "BiasGuardDefense"
            -> BiasGuardDefense_defend(d, forecast_delta, adversary_delta)
      [] d.cls = "EnsembleDefense"
            -> EnsembleDefense_defend(d, forecast_delta, adversary_delta)
      [] OTHER
            -> LET first_out == Defend(d.first, forecast_delta, adversary_delta)
               IN  Defend(d.second, forecast_delta + first_out,
                          adversary_delta + first_out)

RECURSIVE SplitComma(_)
\* [p for p in models.split(",") if p]: the non-empty runs between commas.
SplitComma(toks) ==
    IF toks = << >> THEN << >>
    ELSE IF \E i \in 1..Len(toks) : toks[i] = ","
    THEN LET i == CHOOSE j \in 1..Len(toks) :
                    toks[j] = "," /\ \A k \in 1..(j - 1) : toks[k] # ","
             head == SubSeq(toks, 1, i - 1)
             rest == SplitComma(SubSeq(toks, i + 1, Len(toks)))
         IN  IF head = << >> THEN rest ELSE << head >> \o rest
    ELSE << toks >>

RECURSIVE defense_from_name(_)
defense_from_name(name) ==
    LET isStack == Len(name) >= 2 /\ name[1] = "stack" /\ name[2] = ":"
        parts == IF isStack THEN SplitComma(SubSeq(name, 3, Len(name)))
                 ELSE << >>
    IN  IF isStack /\ Len(parts) >= 2
        THEN StackedDefense(defense_from_name(parts[1]), defense_from_name(parts[2]))
        ELSE CASE name \in {<< "dampening" >>, << "default" >>} -> DampeningDefense
               [] name \in {<< "clipping" >>, << "clip" >>} -> ClippingDefense(200)
               [] name \in {<< "bias_guard" >>, << "bias" >>} -> BiasGuardDefense(120)
               [] name \in {<< "ensemble" >>, << "filter_ensemble" >>} -> EnsembleDefense
               [] OTHER -> DampeningDefense

\* ------------------------------------------------------------------------
\* framework/strategy_runtime.py
\* ------------------------------------------------------------------------

runtime_from_name(name) ==
    CASE name \in {"python", "default"} -> "PythonStrategyRuntime"
      [] name \in {"haskell", "haskellrlm"} -> "HaskellRLMRuntime"
      [] name \in {"prompt", "mock_llm", "llm"} -> "PromptStrategyRuntime"
      [] OTHER -> "PythonStrategyRuntime"

PythonStrategyRuntime_forecast_delta(state) == 400 + Mul(400, state.exogenous)

\* runtime.forecast_delta(state).  The Haskell bridge is the Python fallback
\* whenever its subprocess fails; the prompt runtime's default client
\* answers "0.0".
forecast_delta(runtime, state) ==
    CASE runtime = "PromptStrategyRuntime" -> 0
      [] OTHER -> PythonStrategyRuntime_forecast_delta(state)

\* ------------------------------------------------------------------------
\* framework/agents.py
\*
\* An agent is a record of its class, its fields and `fault`: how a call of
\* it ends.  "none" is the class's own code; "raise" is an agent whose call
\* throws; "malformed" is one that returns a value that is no AgentAction.
\* A call's outcome is [raised, value].
\* ------------------------------------------------------------------------

\* A returned value that is no AgentAction (Python's None).
NoneValue == [none |-> TRUE]

IsAgentAction(v) == "delta" \in DOMAIN v

Returned(v) == [raised |-> FALSE, value |-> v]

Raised == [raised |-> TRUE, value |-> NoneValue]

\* What a call of `agent` gives, `normal` being what its class computes.
Call(agent, normal) ==
    CASE agent.fault = "raise" -> Raised
      [] agent.fault = "malformed" -> Returned(NoneValue)
      [] OTHER -> normal

ForecastingAgent == [cls |-> "ForecastingAgent", name |-> "forecaster", fault |-> "none"]

AdversaryAgent(aggressiveness, attack_cost) ==
    [cls |-> "AdversaryAgent", name |-> "adversary", fault |-> "none",
     aggressiveness |-> aggressiveness, attack_cost |-> attack_cost]

DefenderAgent == [cls |-> "DefenderAgent", name |-> "defender", fault |-> "none"]

RefactoringAgent ==
    [cls |-> "RefactoringAgent", name |-> "refactor", fault |-> "none",
     step_size |-> 20, llm_step_size |-> 20]

BottomUpAgent ==
    [cls |-> "BottomUpAgent", name |-> "bottom_up", fault |-> "none",
     segment_weight |-> 300]

TopDownAgent ==
    [cls |-> "TopDownAgent", name |-> "top_down", fault |-> "none",
     macro_sensitivity |-> 200]

EnsembleAggregatorAgent(mode) ==
    [cls |-> "EnsembleAggregatorAgent", name |-> "aggregator", mode |-> mode]

RECURSIVE SumValues(_, _)
\* sum(mapping.values()), keys taken from ks.
SumValues(ks, m) ==
    IF ks = {} THEN 0
    ELSE LET k == CHOOSE x \in ks : TRUE IN m[k] + SumValues(ks \ {k}, m)

\* sum(m.values()) / max(1, len(m))
MeanValues(m) ==
    DivN(SumValues(DOMAIN m, m), Max2(1, Cardinality(DOMAIN m)))

ForecastingAgent_act(agent, state, runtime) ==
    Returned(AgentAction(agent.name, forecast_delta(runtime, state)))

BottomUpAgent_act(agent, state, runtime) ==
    LET seg_contribution == IF state.segment_values # EmptyMapping
                            THEN MeanValues(state.segment_values) ELSE 0
        base_delta == forecast_delta(runtime, state)
    IN  Returned(AgentAction(agent.name,
            Mul(Scale - agent.segment_weight, base_delta)
            + Mul(agent.segment_weight, seg_contribution)))

TopDownAgent_act(agent, state) ==
    LET macro_signal == IF state.macro_context # EmptyMapping
                        THEN MeanValues(state.macro_context) ELSE 0
    IN  Returned(AgentAction(agent.name, Mul(agent.macro_sensitivity, macro_signal)))

\* A faulty variant of AdversaryAgent.act: the penalty is not capped by the
\* attack's magnitude.
AdversaryAgent_act_uncapped(agent, state) ==
    LET expected_trend == 400 + Mul(400, state.exogenous)
        direction == IF expected_trend >= 0 THEN -1 ELSE 1
        base == Mul(direction * 400, agent.aggressiveness)
        penalty == Mul(agent.attack_cost, 200)
    IN  Returned(AgentAction(agent.name,
                             base - (IF base > 0 THEN penalty ELSE -penalty)))

AdversaryAgent_act(agent, state) ==
    LET expected_trend == 400 + Mul(400, state.exogenous)
        direction == IF expected_trend >= 0 THEN -1 ELSE 1
        base == Mul(direction * 400, agent.aggressiveness)
        penalty == Min2(Abs(base), Mul(agent.attack_cost, 200))
        delta == base - (IF base > 0 THEN penalty ELSE -penalty)
    IN  Returned(AgentAction(agent.name, delta))

\* DefenderAgent.act: reading .delta of a value that is no AgentAction throws.
DefenderAgent_act(agent, forecast_action, adversary_action, defense_model) ==
    IF ~IsAgentAction(forecast_action) \/ ~IsAgentAction(adversary_action)
    THEN Raised
    ELSE Returned(AgentAction(agent.name,
            Defend(defense_from_name(defense_model),
                   forecast_action.delta, adversary_action.delta)))

\* RefactoringAgent.revise(latest_error, use_llm=): the bias adjustment.  The
\* default llm_client is MockLLMRefactorClient(step_size=0.02).
RefactoringAgent_revise(agent, latest_error, use_llm) ==
    IF use_llm
    THEN (IF latest_error > 0 THEN -agent.llm_step_size ELSE agent.llm_step_size)
    ELSE (IF latest_error > 0 THEN -agent.step_size ELSE agent.step_size)

RECURSIVE SumDeltas(_)
SumDeltas(actions) ==
    IF actions = << >> THEN 0
    ELSE Head(actions).delta + SumDeltas(Tail(actions))

RECURSIVE SumSeq(_)
SumSeq(xs) == IF xs = << >> THEN 0 ELSE Head(xs) + SumSeq(Tail(xs))

\* reward_history.get(actor, 0.0)
GetOr0(m, k) == IF k \in DOMAIN m THEN m[k] ELSE 0

\* EnsembleAggregatorAgent.aggregate(actions, reward_history), on AgentActions.
EnsembleAggregatorAgent_aggregate(agg, actions, reward_history) ==
    IF actions = << >> THEN AgentAction(agg.name, 0)
    ELSE IF agg.mode = "reward_proportional" /\ reward_history # EmptyMapping
    THEN LET weights == [i \in 1..Len(actions) |->
                            Max2(0, GetOr0(reward_history, actions[i].actor) + Scale)]
             sum == SumSeq(weights)
             total == IF sum = 0 THEN Scale ELSE sum
             num == SumSeq([i \in 1..Len(actions) |->
                                Mul(weights[i], actions[i].delta)])
         IN  AgentAction(agg.name, Sgn(num) * ((Abs(num) * Scale) \div total))
    ELSE AgentAction(agg.name, DivN(SumDeltas(actions), Len(actions)))

\* AgentRegistry: refactorer is None or Some(agent).
AgentRegistry(forecasters, adversaries, defenders, refactorer, aggregator) ==
    [forecasters |-> forecasters, adversaries |-> adversaries,
     defenders |-> defenders, refactorer |-> refactorer,
     aggregator |-> aggregator]

\* default_agent_factory and _build_registry (game.py).
DefaultRegistry(config) ==
    AgentRegistry(<< ForecastingAgent >>,
                  << AdversaryAgent(config.adversarial_intensity, config.attack_cost) >>,
                  << DefenderAgent >>, Some(RefactoringAgent),
                  EnsembleAggregatorAgent("equal"))

\* SafeAgentExecutor.fallback_delta
fallback_delta == 0

\* SafeAgentExecutor.execute(fn, *args): what the round loop receives.
SafeAgentExecutor_execute(outcome) ==
    IF outcome.raised THEN AgentAction("fallback", fallback_delta)
    ELSE outcome.value

\* ------------------------------------------------------------------------
\* framework/game.py: ForecastGame
\* ------------------------------------------------------------------------

\* The engines of a session: the determinism tests construct two.
Engines == 1..2

VARIABLES
    config,              \* e -> self.config
    seed,                \* e -> the seed the engine was constructed with
    registry,            \* e -> self._registry
    rng,                 \* stream -> the generator's state (self._rng)
    pc,                  \* e -> "idle", "running", "returned" or "raised"
    args,                \* e -> run()'s arguments [initial, rounds, disturbed]
    n_rounds,            \* e -> run()'s n_rounds
    idx,                 \* e -> the loop index of the next round
    state,               \* e -> run()'s state
    refactor_bias,       \* e -> run()'s refactor_bias
    cumulative_rewards,  \* e -> run()'s cumulative_rewards
    steps, trajectories, trajectory_logs, forecasts, targets, confidence,
    convergence,         \* e -> the convergence dict of the returned outputs
    halted,              \* e -> the loop was left by the timeout's break
    last_round,          \* e -> what the last round body did with the stream
    ev,                  \* the evolve_state calls of the property tests
    comp                 \* component -> the state of an object used beside the engine

engine_vars ==
    << config, seed, registry, rng, pc, args, n_rounds, idx, state,
       refactor_bias, cumulative_rewards, steps, trajectories,
       trajectory_logs, forecasts, targets, confidence, convergence,
       halted, last_round >>

vars == << engine_vars, ev, comp >>

\* A faulty variant of StreamOf: one process-global generator, shared by
\* every engine.
SharedStream(e) == 1

\* The stream engine e draws from: its own (self._rng = Random(seed)).
StreamOf(e) == e

\* A faulty variant of EffectiveRounds: the cap of max_rounds is left out.
EffectiveRoundsUncapped(rounds, cfg) ==
    Max2(0, IF rounds # None THEN rounds[1] ELSE cfg.horizon)

\* A faulty variant of EffectiveRounds: `rounds or horizon`, which takes a
\* rounds of 0 for an absent one.
EffectiveRoundsFalsy(rounds, cfg) ==
    LET requested_rounds == IF rounds # None /\ rounds[1] # 0 THEN rounds[1]
                            ELSE cfg.horizon
    IN  Max2(0, Min2(requested_rounds, cfg.max_rounds))

\* requested_rounds and n_rounds of run() (lines 111-112).
EffectiveRounds(rounds, cfg) ==
    LET requested_rounds == IF rounds # None THEN rounds[1] ELSE cfg.horizon
    IN  Max2(0, Min2(requested_rounds, cfg.max_rounds))

\* A faulty variant of TimedOut: the budget is never enforced.
TimedOutNever(elapsed, cfg) == FALSE

\* elapsed > self.config.max_round_timeout_s (line 191)
TimedOut(elapsed, cfg) == elapsed > cfg.max_round_timeout_s

\* A faulty variant of Band: the disturbance enters with its sign.
BandSigned(disturbance_val, cfg) == disturbance_val + cfg.base_noise_std + 50

\* band of the confidence interval (line 162)
Band(disturbance_val, cfg) == Abs(disturbance_val) + cfg.base_noise_std + 50

\* A faulty variant of DrawPhase: the noise is drawn before the disturbance.
DrawPhaseNoiseFirst(cfg, st, rng0, disturbed) ==
    LET g == RandomGauss(rng0, 0, cfg.base_noise_std)
        sample == IF disturbed
                  THEN DisturbanceSample(disturbance_from_name(cfg.disturbance_model),
                                         st, g.rng, cfg)
                  ELSE NoDraw(g.rng)
    IN  [disturbance_val |-> sample.val, noise |-> g.val,
         rng_after_sample |-> sample.rng, rng |-> sample.rng,
         sample_draws |-> sample.draws,
         draws |-> << << "noise", "gauss" >> >>
                   \o [i \in 1..Len(sample.draws) |-> << "disturbance", sample.draws[i] >>]]

\* Lines 148 and 150: the disturbance sample, then the noise gaussian, on
\* the engine's stream.  draws lists the calls made, each with its caller.
DrawPhase(cfg, st, rng0, disturbed) ==
    LET sample == IF disturbed
                  THEN DisturbanceSample(disturbance_from_name(cfg.disturbance_model),
                                         st, rng0, cfg)
                  ELSE NoDraw(rng0)
        g == RandomGauss(sample.rng, 0, cfg.base_noise_std)
    IN  [disturbance_val |-> sample.val, noise |-> g.val,
         rng_after_sample |-> sample.rng, rng |-> g.rng,
         sample_draws |-> sample.draws,
         draws |-> [i \in 1..Len(sample.draws) |-> << "disturbance", sample.draws[i] >>]
                   \o << << "noise", "gauss" >> >>]

\* One forecaster's call (lines 128-131): TopDown gets the state only.
ForecasterCall(agent, st, runtime) ==
    Call(agent,
         CASE agent.cls = "TopDownAgent" -> TopDownAgent_act(agent, st)
           [] agent.cls = "BottomUpAgent" -> BottomUpAgent_act(agent, st, runtime)
           [] OTHER -> ForecastingAgent_act(agent, st, runtime))

RECURSIVE AddRewards(_, _, _)
\* Lines 159-160: cumulative_rewards[a.actor] += reward for each action.
AddRewards(cum, actions, reward) ==
    IF actions = << >> THEN cum
    ELSE LET a == Head(actions).actor
             upd == [k \in DOMAIN cum \cup {a} |->
                        IF k = a THEN GetOr0(cum, a) + reward ELSE cum[k]]
         IN  AddRewards(upd, Tail(actions), reward)

AnyMalformed(actions) == \E k \in 1..Len(actions) : ~IsAgentAction(actions[k])

\* Lines 126-135: every forecaster through the safe executor, then the
\* aggregate.  [all, raised, action]; raised is the AttributeError of the
\* aggregator reading a value that is no AgentAction.
ForecastPhase(cfg, reg, st, cum) ==
    LET all == [k \in 1..Len(reg.forecasters) |->
                  SafeAgentExecutor_execute(
                      ForecasterCall(reg.forecasters[k], st,
                                     runtime_from_name(cfg.runtime_backend)))]
    IN  [all |-> all,
         raised |-> Len(all) # 1 /\ AnyMalformed(all),
         action |-> IF Len(all) = 1 THEN all[1]
                    ELSE IF AnyMalformed(all) THEN NoneValue
                    ELSE EnsembleAggregatorAgent_aggregate(reg.aggregator, all, cum)]

\* Lines 137-142: the adversaries, or the zero action of an undisturbed run.
AdversaryPhase(reg, st, disturbed) ==
    LET all == [k \in 1..Len(reg.adversaries) |->
                  SafeAgentExecutor_execute(
                      Call(reg.adversaries[k],
                           AdversaryAgent_act(reg.adversaries[k], st)))]
    IN  IF disturbed
        THEN [raised |-> Len(all) # 1 /\ AnyMalformed(all),
              action |-> IF Len(all) = 1 THEN all[1]
                         ELSE IF AnyMalformed(all) THEN NoneValue
                         ELSE AgentAction("adversary",
                                  DivN(SumDeltas(all), Max2(1, Len(all))))]
        ELSE [raised |-> FALSE,
              action |-> AgentAction(IF reg.adversaries # << >>
                                     THEN reg.adversaries[1].name
                                     ELSE "adversary", 0)]

\* Lines 144-146: the defenders.
DefenderPhase(cfg, reg, f_action, a_action) ==
    LET all == [k \in 1..Len(reg.defenders) |->
                  SafeAgentExecutor_execute(
                      Call(reg.defenders[k],
                           DefenderAgent_act(reg.defenders[k], f_action, a_action,
                                             cfg.defense_model)))]
    IN  [raised |-> Len(all) # 1 /\ AnyMalformed(all),
         action |-> IF Len(all) = 1 THEN all[1]
                    ELSE IF AnyMalformed(all) THEN NoneValue
                    ELSE AgentAction("defender",
                             DivN(SumDeltas(all), Max2(1, Len(all))))]

\* What the round body gives when an exception leaves run() at `line`, the
\* stream being r after the calls ds (ras after the disturbance's calls).
RaisedAt(line, r, ds, ras) ==
    [status |-> "raised", line |-> line, rng |-> r, draws |-> ds,
     rng_after_sample |-> ras]

\* Lines 164-189: the records of a round.
RoundRecords(st, i, actions, forecast, next_state, reward, disturbance_val, ci) ==
    LET messages ==
            << [sender |-> "forecaster", receiver |-> "adversary",
                payload |-> << "proposal", actions[1].delta >>],
               [sender |-> "adversary", receiver |-> "defender",
                payload |-> << "attack", actions[2].delta >>],
               [sender |-> "defender", receiver |-> "refactor",
                payload |-> << "defense", actions[3].delta >>] >>
        reward_breakdown ==
            [forecaster |-> reward, adversary |-> -reward, defender |-> reward]
    IN  [step |-> [next_state |-> next_state, actions |-> actions,
                   reward_breakdown |-> reward_breakdown,
                   forecast |-> forecast, target |-> next_state.value,
                   confidence |-> ci, messages |-> messages],
         traj |-> [round_idx |-> i, state |-> st, actions |-> actions,
                   messages |-> messages,
                   reward_breakdown |-> reward_breakdown,
                   forecast |-> forecast, target |-> next_state.value],
         log |-> [round_idx |-> i, state |-> st, actions |-> actions,
                  forecast |-> forecast, target |-> next_state.value,
                  reward |-> reward, disturbance |-> disturbance_val,
                  messages |-> messages]]

\* Lines 152-224, given the forecast and the next state: the error, the
\* refactor step, the reward bookkeeping, the interval, and the timeout
\* check that decides whether the round is appended.
RoundTail(cfg, reg, st, bias, cum, i, elapsed, fp, actions, dp, forecast, next_state) ==
    LET error == next_state.value - forecast
        refactor == IF reg.refactorer # None THEN reg.refactorer[1]
                    ELSE RefactoringAgent
        band == Band(dp.disturbance_val, cfg)
        recs == RoundRecords(st, i, actions, forecast, next_state, -Abs(error),
                             dp.disturbance_val,
                             ConfidenceInterval(forecast - band, forecast + band))
    IN  IF cfg.enable_refactor /\ refactor.fault # "none"
        THEN RaisedAt(157, dp.rng, dp.draws, dp.rng_after_sample)
        ELSE [status |-> IF TimedOut(elapsed, cfg) THEN "timeout" ELSE "ok",
              line |-> 0, rng |-> dp.rng, draws |-> dp.draws,
              rng_after_sample |-> dp.rng_after_sample,
              next_state |-> next_state,
              refactor_bias |->
                 IF cfg.enable_refactor
                 THEN bias + RefactoringAgent_revise(refactor, error,
                                                     cfg.enable_llm_refactor)
                 ELSE bias,
              cumulative_rewards |-> AddRewards(cum, fp.all, -Abs(error)),
              forecast |-> forecast, target |-> next_state.value,
              ci |-> recs.step.confidence,
              step |-> recs.step, traj |-> recs.traj, log |-> recs.log]

\* Lines 148-151, given the three actions: the draws, the forecast and the
\* transition.  Reading .delta of a value that is no AgentAction throws.
RoundDraw(cfg, reg, st, bias, cum, i, elapsed, fp, actions, dp) ==
    IF AnyMalformed(actions)
    THEN RaisedAt(149, dp.rng_after_sample,
                  [k \in 1..Len(dp.sample_draws) |-> dp.draws[k]],
                  dp.rng_after_sample)
    ELSE RoundTail(cfg, reg, st, bias, cum, i, elapsed, fp, actions, dp,
                   st.value + actions[1].delta + actions[2].delta
                       + actions[3].delta + bias,
                   evolve_state(st, 400, dp.noise, dp.disturbance_val, None))

\* Lines 137-146, given the forecasters' result.
RoundAgents(cfg, reg, rng0, st, bias, cum, i, disturbed, elapsed, fp, ap) ==
    IF fp.raised THEN RaisedAt(135, rng0, << >>, rng0)
    ELSE IF ap.raised THEN RaisedAt(140, rng0, << >>, rng0)
    ELSE LET dfp == DefenderPhase(cfg, reg, fp.action, ap.action)
         IN  IF dfp.raised THEN RaisedAt(146, rng0, << >>, rng0)
             ELSE RoundDraw(cfg, reg, st, bias, cum, i, elapsed, fp,
                            << fp.action, ap.action, dfp.action >>,
                            DrawPhase(cfg, st, rng0, disturbed))

\* The body of the round loop (lines 124-224) for round i from state st.
\* status is "ok" (the round was appended), "timeout" (the break of line
\* 196) or "raised" (an exception left run(); `line` says where).
RoundBody(cfg, reg, rng0, st, bias, cum, i, disturbed, elapsed) ==
    RoundAgents(cfg, reg, rng0, st, bias, cum, i, disturbed, elapsed,
                ForecastPhase(cfg, reg, st, cum),
                AdversaryPhase(reg, st, disturbed))

\* ------------------------------------------------------------------------
\* The inputs of the model
\* ------------------------------------------------------------------------

\* Largest seed of the model.
MaxSeed == 2

Seeds == 0..MaxSeed

DisturbanceNames ==
    {"gaussian", "shift", "evasion", "volatility", "regime_shift",
     "volatility_burst", "drift"}

\* The configurations of the model: every field not listed is the default.
Configs ==
    { [DefaultConfig EXCEPT !.horizon = h, !.max_rounds = m,
                            !.base_noise_std = ns, !.disturbance_prob = p,
                            !.disturbance_model = dm, !.enable_refactor = rf] :
        h \in {1, MaxRounds + 1}, m \in {0, MaxRounds}, ns \in {0, 100},
        p \in {0, 500, 1000}, dm \in DisturbanceNames, rf \in BOOLEAN }

InitialStates == {ForecastState(0, 10000, 0, 0), ForecastState(11, -5000, -2000, 0)}

\* run()'s arguments: rounds is None, negative, zero or positive.
RunArgs ==
    { [initial |-> i, rounds |-> r, disturbed |-> d] :
        i \in InitialStates,
        r \in {None, Some(-1), Some(0), Some(MaxRounds)},
        d \in BOOLEAN }

\* time.perf_counter() differences of a round, in 1/Scale seconds.
ElapsedValues == {1, 2000}

NoRound == [draws |-> << >>, ran |-> FALSE]

\* No object beside the engine has been made.
NoComponents == [runner |-> << >>, defense |-> << >>, resolver |-> << >>,
     runtime |-> << >>, adversary |-> << >>, bayes |-> << >>,
     split |-> << >>, backtest |-> << >>, policy |-> << >>, wolf |-> << >>, rad |-> << >>, poison |-> << >>, fan |-> << >>, ensemble |-> << >>, reuse |-> << >>]

\* ------------------------------------------------------------------------
\* Actions
\* ------------------------------------------------------------------------

\* run() up to its loop (lines 111-121) on engine e.
Enter(e, a) ==
    /\ pc[e] = "idle"
    /\ pc' = [pc EXCEPT ![e] = "running"]
    /\ args' = [args EXCEPT ![e] = a]
    /\ n_rounds' = [n_rounds EXCEPT ![e] = EffectiveRounds(a.rounds, config[e])]
    /\ idx' = [idx EXCEPT ![e] = 0]
    /\ state' = [state EXCEPT ![e] = a.initial]
    /\ refactor_bias' = [refactor_bias EXCEPT ![e] = 0]
    /\ cumulative_rewards' = [cumulative_rewards EXCEPT ![e] = EmptyMapping]
    /\ steps' = [steps EXCEPT ![e] = << >>]
    /\ trajectories' = [trajectories EXCEPT ![e] = << >>]
    /\ trajectory_logs' = [trajectory_logs EXCEPT ![e] = << >>]
    /\ forecasts' = [forecasts EXCEPT ![e] = << >>]
    /\ targets' = [targets EXCEPT ![e] = << >>]
    /\ confidence' = [confidence EXCEPT ![e] = << >>]
    /\ halted' = [halted EXCEPT ![e] = FALSE]
    /\ UNCHANGED << config, seed, registry, rng, convergence, last_round, ev, comp >>

\* out1 = ForecastGame(cfg, seed=seed).run(init, ...)
RunFirst == \E a \in RunArgs : Enter(1, a)

\* out2 = ForecastGame(cfg, seed=seed).run(init, ...): the same arguments,
\* once the first run has returned.
RunSecond == pc[1] = "returned" /\ Enter(2, args[1])

\* The effect of a round body r of engine e on the engine.
Commit(e, elapsed, r) ==
    /\ rng' = [rng EXCEPT ![StreamOf(e)] = r.rng]
    /\ pc' = [pc EXCEPT ![e] = IF r.status = "raised" THEN "raised" ELSE @]
    /\ halted' = [halted EXCEPT ![e] = r.status = "timeout"]
    /\ last_round' = [last_round EXCEPT ![e] =
            [draws |-> r.draws, ran |-> TRUE, status |-> r.status,
             line |-> r.line, idx |-> idx[e], state |-> state[e],
             rng_before |-> rng[StreamOf(e)],
             rng_after_sample |-> r.rng_after_sample, elapsed |-> elapsed]]
    /\ refactor_bias' = [refactor_bias EXCEPT ![e] =
            IF r.status = "raised" THEN @ ELSE r.refactor_bias]
    /\ cumulative_rewards' = [cumulative_rewards EXCEPT ![e] =
            IF r.status = "raised" THEN @ ELSE r.cumulative_rewards]
    /\ steps' = [steps EXCEPT ![e] = IF r.status = "ok" THEN Append(@, r.step) ELSE @]
    /\ trajectories' = [trajectories EXCEPT ![e] =
            IF r.status = "ok" THEN Append(@, r.traj) ELSE @]
    /\ trajectory_logs' = [trajectory_logs EXCEPT ![e] =
            IF r.status = "ok" THEN Append(@, r.log) ELSE @]
    /\ forecasts' = [forecasts EXCEPT ![e] =
            IF r.status = "ok" THEN Append(@, r.forecast) ELSE @]
    /\ targets' = [targets EXCEPT ![e] =
            IF r.status = "ok" THEN Append(@, r.target) ELSE @]
    /\ confidence' = [confidence EXCEPT ![e] =
            IF r.status = "ok" THEN Append(@, r.ci) ELSE @]
    /\ state' = [state EXCEPT ![e] = IF r.status = "ok" THEN r.next_state ELSE @]
    /\ idx' = [idx EXCEPT ![e] = IF r.status = "ok" THEN @ + 1 ELSE @]

\* One iteration of the round loop of engine e.
Round(e) ==
    /\ pc[e] = "running"
    /\ ~halted[e]
    /\ idx[e] < n_rounds[e]
    /\ \E elapsed \in ElapsedValues :
        Commit(e, elapsed,
               RoundBody(config[e], registry[e], rng[StreamOf(e)], state[e],
                         refactor_bias[e], cumulative_rewards[e], idx[e],
                         args[e].disturbed, elapsed))
    /\ UNCHANGED << config, seed, registry, args, n_rounds, convergence, ev, comp >>

\* After the loop (lines 226-239): the convergence summary and the return.
Return(e) ==
    /\ pc[e] = "running"
    /\ halted[e] \/ idx[e] = n_rounds[e]
    /\ pc' = [pc EXCEPT ![e] = "returned"]
    /\ convergence' = [convergence EXCEPT ![e] =
            [rounds_executed |-> Len(steps[e]),
             max_rounds |-> config[e].max_rounds,
             round_cap_hit |-> Len(steps[e]) = config[e].max_rounds]]
    /\ UNCHANGED << config, seed, registry, rng, args, n_rounds, idx, state,
                    refactor_bias, cumulative_rewards, steps, trajectories,
                    trajectory_logs, forecasts, targets, confidence, halted,
                    last_round, ev, comp >>

NoConvergence == [rounds_executed |-> 0, max_rounds |-> 0, round_cap_hit |-> FALSE]

NoArgs == [initial |-> ForecastState(0, 0, 0, 0), rounds |-> None, disturbed |-> FALSE]

\* Two engines constructed with configuration c, seed s and registry reg,
\* neither yet run.
Constructed(c, s, reg) ==
    /\ config = [e \in Engines |-> c]
    /\ seed = [e \in Engines |-> s]
    /\ registry = [e \in Engines |-> reg]
    /\ rng = [e \in Engines |-> RandomSeeded(s)]
    /\ pc = [e \in Engines |-> "idle"]
    /\ args = [e \in Engines |-> NoArgs]
    /\ n_rounds = [e \in Engines |-> 0]
    /\ idx = [e \in Engines |-> 0]
    /\ state = [e \in Engines |-> NoArgs.initial]
    /\ refactor_bias = [e \in Engines |-> 0]
    /\ cumulative_rewards = [e \in Engines |-> EmptyMapping]
    /\ steps = [e \in Engines |-> << >>]
    /\ trajectories = [e \in Engines |-> << >>]
    /\ trajectory_logs = [e \in Engines |-> << >>]
    /\ forecasts = [e \in Engines |-> << >>]
    /\ targets = [e \in Engines |-> << >>]
    /\ confidence = [e \in Engines |-> << >>]
    /\ convergence = [e \in Engines |-> NoConvergence]
    /\ halted = [e \in Engines |-> FALSE]
    /\ last_round = [e \in Engines |-> NoRound]

Init ==
    /\ \E c \in Configs, s \in Seeds : Constructed(c, s, DefaultRegistry(c))
    /\ ev = << >>
    /\ comp = NoComponents

Next ==
    \/ RunFirst
    \/ RunSecond
    \/ \E e \in Engines : Round(e)
    \/ \E e \in Engines : Return(e)

Spec == Init /\ [][Next]_vars

\* ------------------------------------------------------------------------
\* Agents that fault: the registries of SpecFault
\* ------------------------------------------------------------------------

FaultKinds == {"none", "raise", "malformed"}

Faulty(agent, kind) == [agent EXCEPT !.fault = kind]

\* One agent of each role, each with its own way of ending a call.
SingleRegistries(c) ==
    { AgentRegistry(<< Faulty(ForecastingAgent, ff) >>,
                    << Faulty(AdversaryAgent(c.adversarial_intensity, c.attack_cost), af) >>,
                    << Faulty(DefenderAgent, df) >>,
                    Some(Faulty(RefactoringAgent, rf)),
                    EnsembleAggregatorAgent("equal")) :
        ff \in FaultKinds, af \in FaultKinds, df \in FaultKinds, rf \in FaultKinds }

\* Two forecasters, two adversaries and two defenders, one of a role faulty;
\* and a registry with no agents and no refactorer.
WideRegistries(c) ==
    { AgentRegistry(<< Faulty(ForecastingAgent, ff), TopDownAgent >>,
                    << AdversaryAgent(c.adversarial_intensity, c.attack_cost),
                       Faulty(AdversaryAgent(c.adversarial_intensity, c.attack_cost), af) >>,
                    << Faulty(DefenderAgent, df), DefenderAgent >>,
                    Some(RefactoringAgent),
                    EnsembleAggregatorAgent("equal")) :
        ff \in FaultKinds, af \in FaultKinds, df \in FaultKinds }
    \cup { AgentRegistry(<< >>, << >>, << >>, None, EnsembleAggregatorAgent("equal")) }

FaultConfigs ==
    { [DefaultConfig EXCEPT !.horizon = MaxRounds, !.max_rounds = MaxRounds,
                            !.enable_refactor = rf] : rf \in BOOLEAN }

InitFault ==
    /\ \E c \in FaultConfigs, s \in Seeds :
         \E reg \in SingleRegistries(c) \cup WideRegistries(c) : Constructed(c, s, reg)
    /\ ev = << >>
    /\ comp = NoComponents

SpecFault == InitFault /\ [][Next]_vars

\* ------------------------------------------------------------------------
\* Properties of the round loop
\* ------------------------------------------------------------------------

IsPrefix(a, b) == Len(a) <= Len(b) /\ \A k \in 1..Len(a) : a[k] = b[k]

BothReturned == pc[1] = "returned" /\ pc[2] = "returned"

\* C1 as stated: two fresh engines with the same configuration and seed,
\* run with the same arguments, return identical forecasts, identical
\* targets and an identical convergence summary.
C1_Determinism ==
    BothReturned =>
        /\ forecasts[1] = forecasts[2]
        /\ targets[1] = targets[2]
        /\ convergence[1] = convergence[2]

\* C1 amended: the two runs return identical forecasts, targets and
\* convergence whenever neither was cut short by the round timeout; in
\* every case the forecasts and targets of one run are a prefix of the
\* other's, and the runs differ only in where the timeout stopped them.
C1_DeterminismUpToTimeout ==
    BothReturned =>
        /\ (~halted[1] /\ ~halted[2]) =>
              /\ forecasts[1] = forecasts[2]
              /\ targets[1] = targets[2]
              /\ convergence[1] = convergence[2]
        /\ Len(forecasts[1]) = Len(forecasts[2]) =>
              /\ forecasts[1] = forecasts[2]
              /\ targets[1] = targets[2]
              /\ convergence[1] = convergence[2]
        /\ IsPrefix(forecasts[1], forecasts[2]) \/ IsPrefix(forecasts[2], forecasts[1])
        /\ IsPrefix(targets[1], targets[2]) \/ IsPrefix(targets[2], targets[1])

\* Two full disturbed runs with noise that agree round for round.
C1_Witness ==
    /\ BothReturned
    /\ ~halted[1] /\ ~halted[2]
    /\ args[1].disturbed
    /\ config[1].base_noise_std > 0
    /\ Len(forecasts[1]) = MaxRounds
    /\ forecasts[2] = forecasts[1]
    /\ forecasts[1][1] # args[1].initial.value
    /\ \E k \in 1..Len(trajectory_logs[1]) : trajectory_logs[1][k].disturbance # 0

\* C2 as stated: no fault of an agent leaves run(); every round body that
\* ran ended with the round appended or with the timeout's break.
C2_SafeIsolation ==
    \A e \in Engines :
        /\ pc[e] # "raised"
        /\ last_round[e].ran => last_round[e].status # "raised"

\* C3 as stated: with horizon > max_rounds and no rounds argument, the
\* returned steps have exactly max_rounds entries and round_cap_hit is true.
C3_RoundCap ==
    \A e \in Engines :
        (/\ pc[e] = "returned"
         /\ args[e].rounds = None
         /\ config[e].horizon > config[e].max_rounds)
        => /\ Len(steps[e]) = config[e].max_rounds
           /\ convergence[e].round_cap_hit

\* C3 amended: with horizon > max_rounds and no rounds argument, a run in
\* which no round exceeds max_round_timeout_s returns exactly max_rounds
\* steps with round_cap_hit true; a run the timeout cuts short returns
\* fewer than max_rounds steps with round_cap_hit false.
C3_RoundCapUnlessTimeout ==
    \A e \in Engines :
        (/\ pc[e] = "returned"
         /\ args[e].rounds = None
         /\ config[e].horizon > config[e].max_rounds)
        => IF halted[e]
           THEN /\ Len(steps[e]) < config[e].max_rounds
                /\ ~convergence[e].round_cap_hit
           ELSE /\ Len(steps[e]) = config[e].max_rounds
                /\ convergence[e].round_cap_hit

\* A capped run: horizon above a positive max_rounds, every round in time.
C3_Witness ==
    \E e \in Engines :
        /\ pc[e] = "returned"
        /\ args[e].rounds = None
        /\ config[e].horizon > config[e].max_rounds
        /\ config[e].max_rounds > 0
        /\ ~halted[e]
        /\ Len(steps[e]) = config[e].max_rounds
        /\ convergence[e].round_cap_hit

\* C4: run(initial, rounds=0) and run(initial, rounds=-k) do not fault and
\* every output list is empty, whatever the horizon.
C4_NonPositiveRounds ==
    \A e \in Engines :
        (pc[e] # "idle" /\ args[e].rounds # None /\ args[e].rounds[1] <= 0)
        => /\ pc[e] \in {"running", "returned"}
           /\ ~last_round[e].ran
           /\ steps[e] = << >> /\ trajectories[e] = << >>
           /\ trajectory_logs[e] = << >> /\ forecasts[e] = << >>
           /\ targets[e] = << >> /\ confidence[e] = << >>
           /\ pc[e] = "returned" => convergence[e].rounds_executed = 0

\* Runs with rounds=0 and rounds=-1 that returned under a positive horizon
\* and a positive max_rounds.
C4_Witness ==
    \E e \in Engines :
        /\ pc[e] = "returned"
        /\ args[e].rounds # None /\ args[e].rounds[1] <= 0
        /\ config[e].horizon > 0 /\ config[e].max_rounds > 0
        /\ steps[e] = << >>

\* C5: a round whose elapsed time exceeds max_round_timeout_s halts the
\* run: it is the last round body to run and is not recorded, so the outputs
\* are exactly the rounds before it; and those outputs are a prefix of the
\* outputs of the run with the same seed, configuration and arguments in
\* which no round times out.
C5_TimeoutTruncates ==
    /\ \A e \in Engines :
        (last_round[e].ran /\ last_round[e].status # "raised") =>
            /\ halted[e] <=> (last_round[e].elapsed > config[e].max_round_timeout_s)
            /\ halted[e] =>
                /\ last_round[e].idx = idx[e]
                /\ Len(steps[e]) = idx[e] /\ Len(trajectories[e]) = idx[e]
                /\ Len(trajectory_logs[e]) = idx[e] /\ Len(forecasts[e]) = idx[e]
                /\ Len(targets[e]) = idx[e] /\ Len(confidence[e]) = idx[e]
                /\ pc[e] = "returned" => convergence[e].rounds_executed = idx[e]
    /\ \A e, f \in Engines :
        (pc[e] = "returned" /\ pc[f] = "returned" /\ halted[e] /\ ~halted[f]) =>
            /\ IsPrefix(steps[e], steps[f])
            /\ IsPrefix(trajectories[e], trajectories[f])
            /\ IsPrefix(trajectory_logs[e], trajectory_logs[f])
            /\ IsPrefix(forecasts[e], forecasts[f])
            /\ IsPrefix(targets[e], targets[f])
            /\ IsPrefix(confidence[e], confidence[f])

\* A run halted in its second round beside a full run of the same inputs.
C5_Witness ==
    \E e, f \in Engines :
        /\ pc[e] = "returned" /\ pc[f] = "returned"
        /\ halted[e] /\ ~halted[f]
        /\ Len(forecasts[e]) = 1
        /\ idx[e] < n_rounds[e]
        /\ Len(forecasts[f]) > 1
        /\ args[e].disturbed /\ config[e].base_noise_std > 0

RECURSIVE ReplayRng(_, _)
\* The generator after the calls `draws` made from generator r.
ReplayRng(r, draws) ==
    IF draws = << >> THEN r
    ELSE ReplayRng(IF Head(draws)[2] = "random" THEN RandomUnit(r).rng
                   ELSE RandomGauss(r, 0, 0).rng,
                   Tail(draws))

\* The calls the disturbance model made in the last round body of engine e.
SampleDraws(e) ==
    SelectSeq(last_round[e].draws, LAMBDA d : d[1] = "disturbance")

\* The last round body of engine e ran through its draws.
RanDraws(e) == last_round[e].ran /\ last_round[e].status # "raised"

\* C6: in a round of a disturbed run every draw of the disturbance model
\* comes before the one gaussian of the base noise, which is the round's
\* last draw; an undisturbed round draws the noise gaussian only; and the
\* stream after the round is the stream after exactly these draws (the
\* refactor step draws nothing).
C6_DrawOrder ==
    \A e \in Engines :
        RanDraws(e) =>
            LET ds == last_round[e].draws
            IN  /\ Len(ds) >= 1
                /\ ds[Len(ds)] = << "noise", "gauss" >>
                /\ \A k \in 1..(Len(ds) - 1) : ds[k][1] = "disturbance"
                /\ ~args[e].disturbed => Len(ds) = 1
                /\ rng[e] = ReplayRng(last_round[e].rng_before, ds)

\* A disturbed round with refactoring on in which the disturbance drew its
\* uniform and a gaussian before the noise.
C6_Witness ==
    \E e \in Engines :
        /\ RanDraws(e)
        /\ args[e].disturbed
        /\ config[e].enable_refactor
        /\ last_round[e].draws =
              << << "disturbance", "random" >>, << "disturbance", "gauss" >>,
                 << "noise", "gauss" >> >>

\* The sample of the last round of e began with one uniform draw, and left
\* the stream one uniform on when it drew nothing more.
OneUniformFirst(e) ==
    /\ SampleDraws(e) # << >>
    /\ SampleDraws(e)[1] = << "disturbance", "random" >>
    /\ Len(SampleDraws(e)) = 1 =>
          last_round[e].rng_after_sample = RandomUnit(last_round[e].rng_before).rng

\* C7 as stated: for every disturbance variant and every state, sample()
\* consumes one uniform draw for its probability check before any other.
C7_AlwaysOneUniform ==
    \A e \in Engines :
        (RanDraws(e) /\ args[e].disturbed) => OneUniformFirst(e)

\* C7 amended: Gaussian, Shift, Evasion, VolatilityScaled, VolatilityBurst
\* and Drift consume exactly one uniform draw for the probability check
\* before any further draw, in every state; RegimeShift does so only when
\* state.t > 0 and state.t is a multiple of every_n_steps, and in every
\* other state consumes nothing and leaves the stream where it was.
C7_OneUniformExceptRegimeShift ==
    \A e \in Engines :
        (RanDraws(e) /\ args[e].disturbed) =>
            IF disturbance_from_name(config[e].disturbance_model) = "RegimeShiftDisturbance"
               /\ ~(last_round[e].state.t > 0 /\ last_round[e].state.t % every_n_steps = 0)
            THEN /\ SampleDraws(e) = << >>
                 /\ last_round[e].rng_after_sample = last_round[e].rng_before
            ELSE OneUniformFirst(e)

\* A RegimeShift round on a period boundary that drew, and a round of a
\* variant whose check failed after its one uniform.
C7_Witness ==
    /\ \E e \in Engines :
        /\ RanDraws(e) /\ args[e].disturbed
        /\ config[e].disturbance_model = "regime_shift"
        /\ last_round[e].state.t = 12
        /\ Len(SampleDraws(e)) = 2
    /\ config[1].disturbance_prob > 0

\* C8 as stated: with disturbance_prob = 0.0 every recorded disturbance is
\* 0, whatever the uniform draw of the probability check returns.
C8_ZeroProbabilityNoDisturbance ==
    \A e \in Engines :
        config[e].disturbance_prob = 0 =>
            \A k \in 1..Len(trajectory_logs[e]) : trajectory_logs[e][k].disturbance = 0

\* C9: every emitted step has confidence.lower <= forecast <= confidence.upper.
C9_ConfidenceEnvelope ==
    \A e \in Engines :
        \A k \in 1..Len(steps[e]) :
            /\ steps[e][k].confidence.lower <= steps[e][k].forecast
            /\ steps[e][k].forecast <= steps[e][k].confidence.upper
            /\ confidence[e][k] = steps[e][k].confidence

\* A step recorded under a negative disturbance larger than the noise band.
C9_Witness ==
    \E e \in Engines :
        \E k \in 1..Len(steps[e]) :
            /\ trajectory_logs[e][k].disturbance < -(config[e].base_noise_std + 50)
            /\ steps[e][k].confidence.lower < steps[e][k].forecast

\* ------------------------------------------------------------------------
\* evolve_state called on its own, as tests/test_properties.py calls it:
\* the same state and keyword arguments, twice.
\* ------------------------------------------------------------------------

MaxCalls == 2

MacroContexts == {EmptyMapping, [gdp |-> 2000], [gdp |-> 2000, pmi |-> -1000]}

CoeffMaps == {None, Some([gdp |-> 500]), Some([gdp |-> 500, pmi |-> 300, cpi |-> 700])}

EvolveStates ==
    {[ForecastState(t, v, x, 0) EXCEPT !.macro_context = m] :
        t \in {0, 5}, v \in {-1000, 2500}, x \in {-500, 0, 1500}, m \in MacroContexts}

\* One call evolve_state(state, base_trend=, noise=, disturbance=, coeff_map=).
CallEvolve ==
    /\ Len(ev.results) < MaxCalls
    /\ ev' = [ev EXCEPT !.results =
                 Append(@, evolve_state(ev.state, ev.base_trend, ev.noise,
                                        ev.disturbance,
                                        IF ev.coeff_map = None THEN None
                                        ELSE ev.coeff_map[1]))]
    /\ UNCHANGED << engine_vars, comp >>

InitEvolve ==
    /\ Constructed(DefaultConfig, 0, DefaultRegistry(DefaultConfig))
    /\ \E s \in EvolveStates, bt \in {400, -300}, n \in {0, -150},
          d \in {0, -800, 350}, cm \in CoeffMaps :
            ev = [given |-> s, state |-> s, base_trend |-> bt, noise |-> n,
                  disturbance |-> d, coeff_map |-> cm, results |-> << >>]
    /\ comp = NoComponents

NextEvolve == CallEvolve

SpecEvolve == InitEvolve /\ [][NextEvolve]_vars

\* coeff * macro_context[key] of the calls in ev, 0 for a key missing from
\* either mapping.
MacroTerm(key) ==
    IF /\ ev.coeff_map # None
       /\ key \in DOMAIN ev.coeff_map[1]
       /\ key \in DOMAIN ev.given.macro_context
    THEN Mul(ev.coeff_map[1][key], ev.given.macro_context[key])
    ELSE 0

MaxSeedList == 2

\* _state_to_primitives(state)
state_to_primitives(st) ==
    [t |-> st.t, value |-> st.value, exogenous |-> st.exogenous,
     hidden_shift |-> st.hidden_shift, segment_id |-> st.segment_id,
     segment_values |-> st.segment_values, macro_context |-> st.macro_context]

\* _state_from_primitives(d)
state_from_primitives(d) ==
    [ForecastState(d.t, d.value, d.exogenous, d.hidden_shift)
        EXCEPT !.segment_id = IF "segment_id" \in DOMAIN d THEN d.segment_id ELSE "",
               !.segment_values = IF "segment_values" \in DOMAIN d
                                  THEN d.segment_values ELSE EmptyMapping,
               !.macro_context = IF "macro_context" \in DOMAIN d
                                 THEN d.macro_context ELSE EmptyMapping]

RECURSIVE RunLoop(_, _, _, _, _, _)
RECURSIVE LoopStep(_, _, _, _, _, _, _)
\* The round loop of run() (lines 123-224) from round i, as one function of
\* the times the rounds take: elapsed[i + 1] is round i's.
RunLoop(cfg, n, disturbed, elapsed, i, acc) ==
    IF i >= n THEN acc
    ELSE LoopStep(cfg, n, disturbed, elapsed, i, acc,
                  RoundBody(cfg, DefaultRegistry(cfg), acc.rng, acc.state,
                            acc.refactor_bias, acc.cumulative_rewards, i,
                            disturbed, elapsed[i + 1]))

\* What the loop does with round i's body r: the break, or the appends and
\* the next round.
LoopStep(cfg, n, disturbed, elapsed, i, acc, r) ==
    IF r.status # "ok" THEN acc
    ELSE RunLoop(cfg, n, disturbed, elapsed, i + 1,
                 [rng |-> r.rng, state |-> r.next_state,
                  refactor_bias |-> r.refactor_bias,
                  cumulative_rewards |-> r.cumulative_rewards,
                  forecasts |-> Append(acc.forecasts, r.forecast),
                  targets |-> Append(acc.targets, r.target)])

\* The GameOutputs fields a worker reports, from the loop's final locals.
RunSummary(cfg, s, acc) ==
    [seed |-> s, forecasts |-> acc.forecasts, targets |-> acc.targets,
     convergence |-> [rounds_executed |-> Len(acc.forecasts),
                      max_rounds |-> cfg.max_rounds,
                      round_cap_hit |-> Len(acc.forecasts) = cfg.max_rounds]]

\* ForecastGame(config, seed=s).run(initial, disturbed=disturbed)
ForecastGame_run(cfg, s, initial, disturbed, elapsed) ==
    RunSummary(cfg, s,
               RunLoop(cfg, EffectiveRounds(None, cfg), disturbed, elapsed, 0,
                       [rng |-> RandomSeeded(s), state |-> initial,
                        refactor_bias |-> 0, cumulative_rewards |-> EmptyMapping,
                        forecasts |-> << >>, targets |-> << >>]))

\* _run_single(args), the rounds taking the times elapsed.
run_single(a, elapsed) ==
    ForecastGame_run(a.config, a.seed, state_from_primitives(a.state_dict),
                     a.disturbed, elapsed)

\* The times the rounds of one run of cfg can take.
ElapsedRuns(cfg) == [1..EffectiveRounds(None, cfg) -> ElapsedValues]

RECURSIVE SeedLists(_)
\* The seed lists of length at most n.
SeedLists(n) ==
    IF n = 0 THEN {<< >>}
    ELSE LET shorter == SeedLists(n - 1)
         IN  shorter \cup {Append(l, s) : l \in {x \in shorter : Len(x) = n - 1}, s \in Seeds}

RunnerConfigs ==
    {c \in Configs : /\ c.max_rounds = MaxRounds /\ c.base_noise_std = 100
                     /\ c.disturbance_prob = 500 /\ c.enable_refactor
                     /\ c.disturbance_model \in {"gaussian", "drift"}}

\* ParallelGameRunner(n_workers=nw), and what the scenario holds beside it.
ParallelGameRunner(nw, cfg, init, seeds, disturbed) ==
    [n_workers |-> nw, config |-> cfg, init_state |-> init, seeds |-> seeds,
     disturbed |-> disturbed, pc |-> "idle", sequential |-> << >>,
     args_list |-> << >>, worker |-> << >>, taken |-> {}, done |-> << >>,
     results |-> << >>]

\* The scenario's loop: `for seed in seeds: ForecastGame(cfg, seed).run(init)`.
SequentialRun ==
    LET r == comp.runner
    IN  /\ r.pc = "idle"
        /\ Len(r.sequential) < Len(r.seeds)
        /\ \E elapsed \in ElapsedRuns(r.config) :
            comp' = [comp EXCEPT !.runner.sequential =
                        Append(@, ForecastGame_run(r.config, r.seeds[Len(@) + 1],
                                                   r.init_state, r.disturbed, elapsed))]
        /\ UNCHANGED << engine_vars, ev >>

\* run_seeds -> map_scenarios up to the creation of the pool (lines 62-68):
\* Pool(processes=0) raises ValueError.
run_seeds ==
    LET r == comp.runner
        state_dict == state_to_primitives(r.init_state)
        args_list == [k \in 1..Len(r.seeds) |->
                        [config |-> r.config, state_dict |-> state_dict,
                         seed |-> r.seeds[k], disturbed |-> r.disturbed]]
        processes == Min2(r.n_workers, Len(args_list))
    IN  /\ r.pc = "idle"
        /\ Len(r.sequential) = Len(r.seeds)
        /\ comp' = [comp EXCEPT !.runner =
                IF processes < 1 THEN [r EXCEPT !.pc = "raised"]
                ELSE [r EXCEPT !.pc = "mapping", !.args_list = args_list,
                               !.worker = [w \in 1..processes |-> 0],
                               !.done = [k \in 1..Len(args_list) |-> None]]]
        /\ UNCHANGED << engine_vars, ev >>

\* A free worker process takes a task of pool.map that no worker has taken.
Take(w) ==
    LET r == comp.runner
    IN  /\ r.pc = "mapping"
        /\ w \in DOMAIN r.worker /\ r.worker[w] = 0
        /\ \E k \in DOMAIN r.args_list \ r.taken :
            comp' = [comp EXCEPT !.runner.worker[w] = k, !.runner.taken = @ \cup {k}]
        /\ UNCHANGED << engine_vars, ev >>

\* Worker w runs _run_single on its task and hands the result back.
Finish(w) ==
    LET r == comp.runner
    IN  /\ r.pc = "mapping"
        /\ w \in DOMAIN r.worker /\ r.worker[w] # 0
        /\ \E elapsed \in ElapsedRuns(r.config) :
            comp' = [comp EXCEPT
                        !.runner.done[r.worker[w]] =
                            Some(run_single(r.args_list[r.worker[w]], elapsed)),
                        !.runner.worker[w] = 0]
        /\ UNCHANGED << engine_vars, ev >>

\* pool.map returns the results in the order of args_list (lines 69-71).
PoolMapReturn ==
    LET r == comp.runner
    IN  /\ r.pc = "mapping"
        /\ \A k \in DOMAIN r.done : r.done[k] # None
        /\ comp' = [comp EXCEPT !.runner.pc = "returned",
                                !.runner.results =
                                    [k \in DOMAIN r.done |-> r.done[k][1]]]
        /\ UNCHANGED << engine_vars, ev >>

InitParallel ==
    /\ Constructed(DefaultConfig, 0, DefaultRegistry(DefaultConfig))
    /\ ev = << >>
    /\ \E nw \in 1..2, cfg \in RunnerConfigs, init \in InitialStates,
          seeds \in SeedLists(MaxSeedList), disturbed \in BOOLEAN :
            comp = [NoComponents EXCEPT
                       !.runner = ParallelGameRunner(nw, cfg, init, seeds, disturbed)]

NextParallel ==
    \/ SequentialRun
    \/ run_seeds
    \/ \E w \in 1..2 : Take(w)
    \/ \E w \in 1..2 : Finish(w)
    \/ PoolMapReturn

SpecParallel == InitParallel /\ [][NextParallel]_vars

\* C11 as stated: for any seed list, run_seeds returns one result per seed
\* in seed-list order, and the forecasts, targets and convergence of the
\* result for a seed equal those of the sequential fresh-engine run with
\* that seed, whatever the worker count and the order the workers finish in.
C11_ParallelEqualsSequential ==
    LET r == comp.runner
    IN  /\ r.pc # "raised"
        /\ r.pc = "returned" =>
            /\ Len(r.results) = Len(r.seeds)
            /\ \A k \in 1..Len(r.results) :
                /\ r.results[k].seed = r.seeds[k]
                /\ r.results[k].forecasts = r.sequential[k].forecasts
                /\ r.results[k].targets = r.sequential[k].targets
                /\ r.results[k].convergence = r.sequential[k].convergence

\* ------------------------------------------------------------------------
\* framework/defenses.py called on its own, as tests/test_properties.py
\* calls ClippingDefense and BiasGuardDefense.
\* ------------------------------------------------------------------------

ForecastDeltas == {-1500, 0, 300}

AdversaryDeltas == {-9000, -500, -120, 0, 119, 300, 9000}

ClipValues == {0, 200, 500}

MaxBiasValues == {0, 120, 300}

\* ClippingDefense(clip=c).defend(forecast_delta, adversary_delta)
CallClipping ==
    LET d == comp.defense
    IN  /\ d.clipping = None
        /\ comp' = [comp EXCEPT !.defense.clipping =
                       Some(ClippingDefense_defend(ClippingDefense(d.clip),
                                                   d.forecast_delta, d.adversary_delta))]
        /\ UNCHANGED << engine_vars, ev >>

\* BiasGuardDefense(max_bias=b).defend(forecast_delta, adversary_delta)
CallBiasGuard ==
    LET d == comp.defense
    IN  /\ d.bias_guard = None
        /\ comp' = [comp EXCEPT !.defense.bias_guard =
                       Some(BiasGuardDefense_defend(BiasGuardDefense(d.max_bias),
                                                    d.forecast_delta, d.adversary_delta))]
        /\ UNCHANGED << engine_vars, ev >>

InitDefense ==
    /\ Constructed(DefaultConfig, 0, DefaultRegistry(DefaultConfig))
    /\ ev = << >>
    /\ \E f \in ForecastDeltas, a \in AdversaryDeltas, c \in ClipValues,
          b \in MaxBiasValues :
            comp = [NoComponents EXCEPT
                       !.defense = [forecast_delta |-> f, adversary_delta |-> a,
                                    clip |-> c, max_bias |-> b,
                                    clipping |-> None, bias_guard |-> None]]

NextDefense == CallClipping \/ CallBiasGuard

SpecDefense == InitDefense /\ [][NextDefense]_vars

\* C12: for every forecast_delta, adversary_delta, c >= 0 and b >= 0,
\* ClippingDefense(c).defend returns a value in [-c, c] and
\* BiasGuardDefense(b).defend returns a value in [-b, b].
C12_DefenseBounds ==
    LET d == comp.defense
    IN  /\ d.clipping # None =>
            (-d.clip <= d.clipping[1] /\ d.clipping[1] <= d.clip)
        /\ d.bias_guard # None =>
            (-d.max_bias <= d.bias_guard[1] /\ d.bias_guard[1] <= d.max_bias)

\* Both defenses called on an adversary delta beyond both bounds, each
\* returning its bound.
C12_Witness ==
    LET d == comp.defense
    IN  /\ d.clipping # None /\ d.bias_guard # None
        /\ d.clip > 0 /\ d.max_bias > 0
        /\ Abs(d.adversary_delta) > d.clip /\ Abs(d.adversary_delta) > d.max_bias
        /\ Abs(d.clipping[1]) = d.clip /\ Abs(d.bias_guard[1]) = d.max_bias

\* The call ClippingDefense(0.5).defend(0.3, a) has been made.
ClippingScenario(a) ==
    LET d == comp.defense
    IN  /\ d.clip = 500 /\ d.forecast_delta = 300 /\ d.adversary_delta = a
        /\ d.clipping # None

\* C13 as stated: ClippingDefense(0.5).defend(0.3, 9.0) returns 0.5 and
\* ClippingDefense(0.5).defend(0.3, -9.0) returns -0.5.
C13_ClippingScenario ==
    /\ ClippingScenario(9000) => comp.defense.clipping[1] = 500
    /\ ClippingScenario(-9000) => comp.defense.clipping[1] = -500

\* C13 amended: ClippingDefense(0.5).defend(0.3, 9.0) returns -0.5 and
\* ClippingDefense(0.5).defend(0.3, -9.0) returns 0.5: the correction is
\* the negated adversary delta, clipped.
C13_ClippingScenarioNegated ==
    /\ ClippingScenario(9000) => comp.defense.clipping[1] = -500
    /\ ClippingScenario(-9000) => comp.defense.clipping[1] = 500

\* The call ClippingDefense(0.5).defend(0.3, 9.0) made.
C13_Witness == ClippingScenario(9000)

\* ------------------------------------------------------------------------
\* defense_from_name called on its own, as tests/test_framework.py calls it:
\* the name resolved, then defend called on the model.
\* ------------------------------------------------------------------------

\* Most parts after "stack:" in a name of the model.
MaxParts == 3

\* What can stand between the commas of a stack name: nothing, a variant's
\* name, or a name of no variant.
PartNames ==
    {<< >>, << "clipping" >>, << "dampening" >>, << "bias_guard" >>,
     << "ensemble" >>, << "foo" >>}

PlainNames ==
    {<< "dampening" >>, << "default" >>, << "clipping" >>, << "clip" >>,
     << "bias_guard" >>, << "bias" >>, << "ensemble" >>,
     << "filter_ensemble" >>, << "foo" >>, << >>, << "stack" >>}

RECURSIVE PartLists(_)
\* The lists of at most n parts.
PartLists(n) ==
    IF n = 0 THEN {<< >>}
    ELSE LET shorter == PartLists(n - 1)
         IN  shorter \cup {Append(l, x) : l \in {y \in shorter : Len(y) = n - 1},
                                          x \in PartNames}

RECURSIVE JoinComma(_)
\* ",".join(parts)
JoinComma(parts) ==
    IF parts = << >> THEN << >>
    ELSE IF Len(parts) = 1 THEN parts[1]
    ELSE parts[1] \o << "," >> \o JoinComma(Tail(parts))

\* The name "stack:" + ",".join(parts)
StackName(parts) == << "stack", ":" >> \o JoinComma(parts)

\* model = defense_from_name(name)
ResolveName ==
    LET r == comp.resolver
    IN  /\ r.model = None
        /\ comp' = [comp EXCEPT !.resolver.model = Some(defense_from_name(r.name))]
        /\ UNCHANGED << engine_vars, ev >>

\* correction = model.defend(forecast_delta, adversary_delta)
DefendCall ==
    LET r == comp.resolver
    IN  /\ r.model # None /\ r.correction = None
        /\ comp' = [comp EXCEPT !.resolver.correction =
                       Some(Defend(r.model[1], r.forecast_delta, r.adversary_delta))]
        /\ UNCHANGED << engine_vars, ev >>

InitDefenseName ==
    /\ Constructed(DefaultConfig, 0, DefaultRegistry(DefaultConfig))
    /\ ev = << >>
    /\ \E f \in {200, -1500}, a \in {-500, 119, 9000} :
        \/ \E parts \in PartLists(MaxParts) :
            comp = [NoComponents EXCEPT
                       !.resolver = [stack |-> TRUE, parts |-> parts,
                                     name |-> StackName(parts),
                                     forecast_delta |-> f, adversary_delta |-> a,
                                     model |-> None, correction |-> None]]
        \/ \E n \in PlainNames :
            comp = [NoComponents EXCEPT
                       !.resolver = [stack |-> FALSE, parts |-> << >>, name |-> n,
                                     forecast_delta |-> f, adversary_delta |-> a,
                                     model |-> None, correction |-> None]]

NextDefenseName == ResolveName \/ DefendCall

SpecDefenseName == InitDefenseName /\ [][NextDefenseName]_vars

\* The variant a plain name stands for; DampeningDefense for any other name.
VariantOf(n) ==
    CASE n \in {<< "clipping" >>, << "clip" >>} -> ClippingDefense(200)
      [] n \in {<< "bias_guard" >>, << "bias" >>} -> BiasGuardDefense(120)
      [] n \in {<< "ensemble" >>, << "filter_ensemble" >>} -> EnsembleDefense
      [] OTHER -> DampeningDefense

\* first, then second on the deltas shifted by first's output.
StackedOutput(first, second, f, a) ==
    Defend(second, f + Defend(first, f, a), a + Defend(first, f, a))

\* C14 as stated: every name "stack:X,Y", X being what stands before the
\* first comma and Y what stands after it, resolves to
\* StackedDefense(defense_from_name(X), defense_from_name(Y)), whose defend(f, a)
\* is Y.defend(f + X.defend(f, a), a + X.defend(f, a)); every name that is
\* neither a variant's nor such a stack resolves to DampeningDefense.
C14_StackOfAnyTwo ==
    LET r == comp.resolver
        X == defense_from_name(r.parts[1])
        Y == defense_from_name(JoinComma(Tail(r.parts)))
    IN  /\ (r.model # None /\ r.stack /\ Len(r.parts) >= 2) =>
                r.model[1] = StackedDefense(X, Y)
        /\ (r.correction # None /\ r.stack /\ Len(r.parts) >= 2) =>
                r.correction[1] = StackedOutput(X, Y, r.forecast_delta, r.adversary_delta)
        /\ (r.model # None /\ ~(r.stack /\ Len(r.parts) >= 2)) =>
                r.model[1] = VariantOf(r.name)

\* C14 amended: a name "stack:" followed by comma-separated parts of which
\* at least two are not empty resolves to StackedDefense(defense_from_name(X),
\* defense_from_name(Y)), X and Y being the first two non-empty parts (empty
\* parts and any further part are ignored), and its defend(f, a) is
\* Y.defend(f + X.defend(f, a), a + X.defend(f, a)); a stack name with fewer
\* than two non-empty parts, and every other name that is no variant's,
\* resolves to DampeningDefense.
C14_StackOfFirstTwoParts ==
    LET r == comp.resolver
        given == SelectSeq(r.parts, LAMBDA x : x # << >>)
    IN  /\ (r.model # None /\ r.stack /\ Len(given) >= 2) =>
                r.model[1] = [cls |-> "StackedDefense",
                              first |-> VariantOf(given[1]),
                              second |-> VariantOf(given[2])]
        /\ (r.correction # None /\ r.stack /\ Len(given) >= 2) =>
                r.correction[1] = StackedOutput(VariantOf(given[1]), VariantOf(given[2]),
                                                r.forecast_delta, r.adversary_delta)
        /\ (r.model # None /\ r.stack /\ Len(given) < 2) =>
                r.model[1] = DampeningDefense
        /\ (r.model # None /\ ~r.stack) => r.model[1] = VariantOf(r.name)

\* "stack:clipping,dampening" resolved and called, its two models giving
\* another correction in the other order.
C14_Witness ==
    LET r == comp.resolver
    IN  /\ r.stack /\ r.parts = << << "clipping" >>, << "dampening" >> >>
        /\ r.model # None /\ r.model[1].cls = "StackedDefense"
        /\ r.correction # None
        /\ r.correction[1] # StackedOutput(DampeningDefense, ClippingDefense(200),
                                           r.forecast_delta, r.adversary_delta)

\* ------------------------------------------------------------------------
\* runtime_from_name and forecast_delta called on their own, as
\* tests/test_framework.py calls them.
\* ------------------------------------------------------------------------

RuntimeNames == {"python", "default", "unknown", "haskell", "prompt"}

RuntimeStates ==
    {ForecastState(t, v, x, 0) :
        t \in {0, 7}, v \in {0, 10000}, x \in {-2000, -500, 0, 1000, 3000}}

\* runtime = runtime_from_name(name)
ResolveRuntime ==
    LET r == comp.runtime
    IN  /\ r.runtime = None
        /\ comp' = [comp EXCEPT !.runtime.runtime = Some(runtime_from_name(r.name))]
        /\ UNCHANGED << engine_vars, ev >>

\* delta = runtime.forecast_delta(state)
CallForecastDelta ==
    LET r == comp.runtime
    IN  /\ r.runtime # None /\ r.delta = None
        /\ comp' = [comp EXCEPT !.runtime.delta =
                       Some(forecast_delta(r.runtime[1], r.state))]
        /\ UNCHANGED << engine_vars, ev >>

InitRuntime ==
    /\ Constructed(DefaultConfig, 0, DefaultRegistry(DefaultConfig))
    /\ ev = << >>
    /\ \E n \in RuntimeNames, st \in RuntimeStates :
        comp = [NoComponents EXCEPT
                   !.runtime = [name |-> n, state |-> st, runtime |-> None,
                                delta |-> None]]

NextRuntime == ResolveRuntime \/ CallForecastDelta

SpecRuntime == InitRuntime /\ [][NextRuntime]_vars

\* C15 as stated: the runtime that runtime_from_name gives for "python",
\* "default" and any unknown name returns forecast_delta(state) =
\* 0.55 + 0.35 * state.exogenous for every state.
C15_DefaultRuntimeDelta ==
    LET r == comp.runtime
    IN  (r.delta # None /\ r.name \in {"python", "default", "unknown"}) =>
            r.delta[1] = 550 + Mul(350, r.state.exogenous)

\* ------------------------------------------------------------------------
\* AdversaryAgent.act called on its own, as tests/test_framework.py calls
\* it: one state, two agents that differ in attack_cost.
\* ------------------------------------------------------------------------

AttackCosts == {0, 1000, 2000, 6000}

Aggressivenesses == {0, 500, 1000, 2500}

AdversaryStates == {ForecastState(0, 10000, x, 0) : x \in {-2000, -1000, 0, 1500}}

\* AdversaryAgent(aggressiveness=g, attack_cost=lower).act(state)
ActCheap ==
    LET r == comp.adversary
    IN  /\ r.cheap = None
        /\ comp' = [comp EXCEPT !.adversary.cheap =
                Some(AdversaryAgent_act(AdversaryAgent(r.aggressiveness, r.lower_cost),
                                        r.state).value)]
        /\ UNCHANGED << engine_vars, ev >>

\* AdversaryAgent(aggressiveness=g, attack_cost=higher).act(state)
ActCostly ==
    LET r == comp.adversary
    IN  /\ r.costly = None
        /\ comp' = [comp EXCEPT !.adversary.costly =
                Some(AdversaryAgent_act(AdversaryAgent(r.aggressiveness, r.higher_cost),
                                        r.state).value)]
        /\ UNCHANGED << engine_vars, ev >>

InitAdversary ==
    /\ Constructed(DefaultConfig, 0, DefaultRegistry(DefaultConfig))
    /\ ev = << >>
    /\ \E st \in AdversaryStates, g \in Aggressivenesses,
          lo \in AttackCosts, hi \in AttackCosts :
        /\ lo <= hi
        /\ comp = [NoComponents EXCEPT
                      !.adversary = [state |-> st, aggressiveness |-> g,
                                     lower_cost |-> lo, higher_cost |-> hi,
                                     cheap |-> None, costly |-> None]]

NextAdversary == ActCheap \/ ActCostly

SpecAdversary == InitAdversary /\ [][NextAdversary]_vars

\* The delta act() returned has the magnitude and the sign the claim gives
\* for attack_cost cost.
AttackAsStated(delta, cost) ==
    LET r == comp.adversary
        full == Mul(400, r.aggressiveness)
        trend == 400 + Mul(400, r.state.exogenous)
    IN  /\ Abs(delta) = full - Min2(full, Mul(200, cost))
        /\ trend >= 0 => delta <= 0
        /\ trend < 0 => delta >= 0

\* C16: for every state, aggressiveness >= 0 and attack_cost >= 0, act
\* returns a delta of magnitude 0.4*aggressiveness - min(0.4*aggressiveness,
\* 0.2*attack_cost) whose sign opposes the expected trend 0.4 +
\* 0.4*exogenous; a higher attack_cost never gives a larger |delta| and
\* never a delta of the other sign.
C16_AttackCost ==
    LET r == comp.adversary
    IN  /\ r.cheap # None =>
            /\ r.cheap[1].actor = "adversary"
            /\ AttackAsStated(r.cheap[1].delta, r.lower_cost)
        /\ r.costly # None => AttackAsStated(r.costly[1].delta, r.higher_cost)
        /\ (r.cheap # None /\ r.costly # None) =>
            /\ Abs(r.costly[1].delta) <= Abs(r.cheap[1].delta)
            /\ r.cheap[1].delta * r.costly[1].delta >= 0

\* Against a falling trend, an attack that the higher cost shrinks to
\* nothing and the lower cost only reduces.
C16_Witness ==
    LET r == comp.adversary
    IN  /\ r.cheap # None /\ r.costly # None
        /\ 400 + Mul(400, r.state.exogenous) < 0
        /\ r.lower_cost > 0
        /\ 0 < r.cheap[1].delta /\ r.cheap[1].delta < Mul(400, r.aggressiveness)
        /\ r.costly[1].delta = 0

\* ------------------------------------------------------------------------
\* framework/aggregation.py: BayesianAggregator
\*
\* Log-weights are scalars in 1/Scale.  A weight is kept as the fraction the
\* code divides out: [num, den] stands for exp_weight / total.
\* ------------------------------------------------------------------------

\* Most calls made on one aggregator.
MaxBayesCalls == 3

\* The unit of an exponential: exp values are in 1/ExpUnit.
ExpUnit == Scale * Scale

\* math.exp(-k/2) for k = 0, 1, ..., in 1/ExpUnit.
ExpTab ==
    << 1000000, 606531, 367879, 223130, 135335, 82085, 49787, 30197, 18316,
       11109, 6738, 4087, 2479, 1503, 912, 553, 335, 203, 123, 75, 45 >>

\* math.exp(x) for x <= 0 a multiple of 0.5; 0 below the table (underflow).
Exp(x) ==
    LET k == (-x) \div 500
    IN  IF k + 1 \in DOMAIN ExpTab THEN ExpTab[k + 1] ELSE 0

\* a / b for scalars, rounded toward zero.
DivS(a, b) == Sgn(a) * Sgn(b) * ((Abs(a) * Scale) \div Abs(b))

\* BayesianAggregator()
BayesianAggregator ==
    [agent_names |-> << >>, log_weights |-> << >>,
     observation_variance |-> Scale, initialized |-> FALSE]

\* _ensure_init(names)
BayesianAggregator_ensure_init(agg, names) ==
    IF agg.initialized THEN agg
    ELSE [agg EXCEPT !.agent_names = names,
                     !.log_weights = [i \in 1..Len(names) |-> 0],
                     !.initialized = TRUE]

\* The weights property.
BayesianAggregator_weights(agg) ==
    IF agg.log_weights = << >> THEN << >>
    ELSE LET lws == agg.log_weights
             max_lw == CHOOSE m \in {lws[i] : i \in DOMAIN lws} :
                           \A i \in DOMAIN lws : lws[i] <= m
             exp_weights == [i \in DOMAIN lws |-> Exp(lws[i] - max_lw)]
             total == IF SumSeq(exp_weights) = 0 THEN ExpUnit
                      ELSE SumSeq(exp_weights)
         IN  [i \in DOMAIN lws |-> [num |-> exp_weights[i], den |-> total]]

\* A faulty variant of update: a larger error raises the log-weight.
BayesianAggregator_update_rewarding(agg, agent_errors) ==
    [agg EXCEPT !.log_weights =
        [i \in DOMAIN agg.log_weights |->
            IF agg.agent_names[i] \in DOMAIN agent_errors
            THEN agg.log_weights[i]
                 + DivS(Mul(500, Mul(agent_errors[agg.agent_names[i]],
                                     agent_errors[agg.agent_names[i]])),
                        agg.observation_variance)
            ELSE agg.log_weights[i]]]

\* update(agent_errors)
BayesianAggregator_update(agg, agent_errors) ==
    [agg EXCEPT !.log_weights =
        [i \in DOMAIN agg.log_weights |->
            IF agg.agent_names[i] \in DOMAIN agent_errors
            THEN agg.log_weights[i]
                 + DivS(Mul(-500, Mul(agent_errors[agg.agent_names[i]],
                                      agent_errors[agg.agent_names[i]])),
                        agg.observation_variance)
            ELSE agg.log_weights[i]]]

\* The weight of an action in aggregate(), over the common denominator
\* den * max(1, len(actions)): name_to_weight.get(actor, 1 / max(1, len)).
\* In dict(zip(names, w)) the last of equal names stays.
ActionWeight(agg, w, actor, n) ==
    LET den == IF w = << >> THEN 1 ELSE w[1].den
        known == {i \in DOMAIN w : agg.agent_names[i] = actor}
    IN  IF known = {} THEN den
        ELSE w[CHOOSE i \in known : \A j \in known : j <= i].num * Max2(1, n)

\* aggregate(actions, state): the aggregator after the call and the pair
\* returned.
BayesianAggregator_aggregate(agg, actions) ==
    LET after == BayesianAggregator_ensure_init(
                     agg, [i \in DOMAIN actions |-> actions[i].actor])
        w == BayesianAggregator_weights(after)
        wi == [i \in DOMAIN actions |->
                  ActionWeight(after, w, actions[i].actor, Len(actions))]
        weight_sum == SumSeq(wi)
        mean_delta == IF weight_sum = 0 THEN 0
                      ELSE DivN(SumSeq([i \in DOMAIN actions |-> wi[i] * actions[i].delta]),
                                weight_sum)
        variance == IF weight_sum = 0 THEN 0
                    ELSE DivN(SumSeq([i \in DOMAIN actions |->
                                  wi[i] * Mul(actions[i].delta - mean_delta,
                                              actions[i].delta - mean_delta)]),
                              weight_sum)
    IN  [agg |-> after, mean_delta |-> mean_delta, variance |-> variance]

\* The action lists handed to aggregate.
BayesActionLists ==
    {<< >>,
     << AgentAction("a1", 100), AgentAction("a2", -100) >>,
     << AgentAction("a1", 100), AgentAction("a2", -100), AgentAction("a3", 50) >>,
     << AgentAction("a2", -100), AgentAction("a4", 80) >>}

\* The error mappings handed to update: errors 0, 1.0 and -2.0.
BayesErrorMaps ==
    [{"a1", "a2"} -> {0, 1000, -2000}]
        \cup {[a1 |-> 1000], [a1 |-> -2000, a2 |-> 1000, a3 |-> 0],
              [a1 |-> 0, a2 |-> 1000, a3 |-> -2000]}

\* agg.aggregate(actions, state)
Aggregate ==
    LET r == comp.bayes
    IN  /\ r.calls < MaxBayesCalls
        /\ \E actions \in BayesActionLists :
            LET out == BayesianAggregator_aggregate(r.agg, actions)
            IN  comp' = [comp EXCEPT !.bayes =
                    [r EXCEPT !.agg = out.agg, !.calls = @ + 1, !.read = None,
                              !.returned = Some(<< out.mean_delta, out.variance >>)]]
        /\ UNCHANGED << engine_vars, ev >>

\* agg.update(agent_errors); updates keeps what was passed, and whether the
\* aggregator had its names by then.
Update ==
    LET r == comp.bayes
    IN  /\ r.calls < MaxBayesCalls
        /\ \E agent_errors \in BayesErrorMaps :
            comp' = [comp EXCEPT !.bayes =
                    [r EXCEPT !.agg = BayesianAggregator_update(r.agg, agent_errors),
                              !.calls = @ + 1, !.read = None,
                              !.updates = Append(@, [agent_errors |-> agent_errors,
                                                     initialized |-> r.agg.initialized])]]
        /\ UNCHANGED << engine_vars, ev >>

\* weights = agg.weights
ReadWeights ==
    LET r == comp.bayes
    IN  /\ r.read = None
        /\ comp' = [comp EXCEPT !.bayes.read = Some(BayesianAggregator_weights(r.agg))]
        /\ UNCHANGED << engine_vars, ev >>

InitBayes ==
    /\ Constructed(DefaultConfig, 0, DefaultRegistry(DefaultConfig))
    /\ ev = << >>
    /\ comp = [NoComponents EXCEPT
                  !.bayes = [agg |-> BayesianAggregator, calls |-> 0,
                             updates |-> << >>, read |-> None, returned |-> None]]

NextBayes == Aggregate \/ Update \/ ReadWeights

SpecBayes == InitBayes /\ [][NextBayes]_vars

\* The weights w sum to 1.
SumsToOne(w) == w # << >> /\ SumSeq([i \in DOMAIN w |-> w[i].num]) = w[1].den

\* In every update of us the agents a and b had errors, a's the larger in
\* magnitude, and there was such an update.
ConsistentlyWorse(us, a, b) ==
    /\ us # << >>
    /\ \A k \in DOMAIN us :
        /\ a \in DOMAIN us[k].agent_errors /\ b \in DOMAIN us[k].agent_errors
        /\ Abs(us[k].agent_errors[a]) > Abs(us[k].agent_errors[b])

\* C17 as stated: after any sequence of aggregate and update calls the
\* weights read sum to 1, and if in every update agent a's error magnitude
\* exceeded agent b's then w(a) < w(b).
C17_WeightsAfterAnyCalls ==
    LET r == comp.bayes
    IN  (r.read # None /\ r.calls > 0) =>
            /\ SumsToOne(r.read[1])
            /\ \A i, j \in DOMAIN r.agg.agent_names :
                ConsistentlyWorse(r.updates, r.agg.agent_names[i], r.agg.agent_names[j])
                    => r.read[1][i].num < r.read[1][j].num

\* C17 amended: once aggregate has been called with a non-empty action
\* list the weights read sum to 1, and until then (and for ever after a
\* first aggregate call with an empty list) they are the empty list; if, in
\* every update made after that first aggregate call, agent a's error
\* magnitude exceeded agent b's, and there was such an update, then
\* w(a) < w(b).  Updates made before the first aggregate call change nothing.
C17_WeightsOnceInitialized ==
    LET r == comp.bayes
        applied == SelectSeq(r.updates, LAMBDA u : u.initialized)
    IN  /\ r.read # None =>
            /\ IF r.agg.initialized /\ r.agg.agent_names # << >>
               THEN SumsToOne(r.read[1]) /\ Len(r.read[1]) = Len(r.agg.agent_names)
               ELSE r.read[1] = << >>
            /\ \A i, j \in DOMAIN r.agg.agent_names :
                ConsistentlyWorse(applied, r.agg.agent_names[i], r.agg.agent_names[j])
                    => r.read[1][i].num < r.read[1][j].num
        /\ ~r.agg.initialized => r.agg.log_weights = << >>

\* Three agents, two updates after the first aggregate call in which a1
\* was worse than a2, and the weights read.
C17_Witness ==
    LET r == comp.bayes
    IN  /\ r.read # None
        /\ Len(r.agg.agent_names) = 3
        /\ Len(r.updates) = 2
        /\ ConsistentlyWorse(SelectSeq(r.updates, LAMBDA u : u.initialized), "a1", "a2")
        /\ r.read[1][1].num < r.read[1][2].num
        /\ r.read[1][1].num > 0

\* ------------------------------------------------------------------------
\* data.py: chronological_split

\* The longest row list split.
MaxRows == 4

\* The series ids and the timestamps (days) a row may carry.
SeriesIds == {"s1", "s2"}

Timestamps == 1..3

DataRows == [series_id : SeriesIds, timestamp : Timestamps]

\* The sort key (series_id, timestamp) of load_dataset, as a number.
RowKey(r) == (IF r.series_id = "s1" THEN 0 ELSE 10) + r.timestamp

\* The row lists of length n that are sorted by (series_id, timestamp).
RECURSIVE SortedRows(_)
SortedRows(n) ==
    IF n = 0 THEN {<< >>}
    ELSE {xs \in {Append(rs, r) : rs \in SortedRows(n - 1), r \in DataRows} :
             n = 1 \/ RowKey(xs[n - 1]) <= RowKey(xs[n])}

\* The ratios a caller may pass, in hundredths; 0 and 100 and sums of 100
\* or more are the invalid ones.
TrainRatios == {0, 20, 50, 70, 100}

ValidRatios == {0, 15, 25, 50}

\* int(n * ratio) for a ratio in hundredths.
IntOfShare(n, ratio) == (n * ratio) \div 100

\* rows[lo:hi] of Python, 0-based and half-open.
Slice(rows, lo, hi) == SubSeq(rows, lo + 1, hi)

\* chronological_split(rows, train, valid): a fault for invalid ratios,
\* else the three consecutive slices.
chronological_split(rows, train, valid) ==
    IF ~(0 < train /\ train < 100) THEN [raised |-> "train split must be in (0,1)"]
    ELSE IF ~(0 <= valid /\ valid < 100) THEN [raised |-> "valid split must be in [0,1)"]
    ELSE IF train + valid >= 100 THEN [raised |-> "train + valid split must be < 1"]
    ELSE LET n == Len(rows)
             train_end == IntOfShare(n, train)
             valid_end == train_end + IntOfShare(n, valid)
         IN  [train |-> Slice(rows, 0, train_end),
              valid |-> Slice(rows, train_end, valid_end),
              test  |-> Slice(rows, valid_end, n)]

\* The caller splits its rows.
CallSplit ==
    LET r == comp.split
    IN  /\ r.bundle = None
        /\ comp' = [comp EXCEPT !.split.bundle =
                       Some(chronological_split(r.rows, r.train, r.valid))]
        /\ UNCHANGED << engine_vars, ev >>

InitSplit ==
    /\ Constructed(DefaultConfig, 0, DefaultRegistry(DefaultConfig))
    /\ ev = << >>
    /\ \E n \in 0..MaxRows : \E rows \in SortedRows(n) :
       \E train \in TrainRatios, valid \in ValidRatios :
          comp = [NoComponents EXCEPT
                     !.split = [rows |-> rows, train |-> train, valid |-> valid,
                                bundle |-> None]]

NextSplit == CallSplit

SpecSplit == InitSplit /\ [][NextSplit]_vars

\* Every timestamp of xs is at most every timestamp of ys.
NoLaterThan(xs, ys) ==
    \A i \in DOMAIN xs, j \in DOMAIN ys : xs[i].timestamp <= ys[j].timestamp

\* max train timestamp <= min valid timestamp <= min test timestamp, each
\* comparison made when both sides exist.
LeakageFree(b) ==
    /\ NoLaterThan(b.train, b.valid)
    /\ b.valid # << >> =>
          \E j \in DOMAIN b.valid :
              /\ \A k \in DOMAIN b.valid : b.valid[j].timestamp <= b.valid[k].timestamp
              /\ \A k \in DOMAIN b.test : b.valid[j].timestamp <= b.test[k].timestamp

\* C18: for any rows sorted by (series_id, timestamp), rows of more than
\* one series included, and any valid ratios, the split has
\* max train timestamp <= min valid timestamp <= min test timestamp.
C18_LeakageFreedom ==
    LET r == comp.split
    IN  (r # << >> /\ r.bundle # None /\ "raised" \notin DOMAIN r.bundle[1])
            => LeakageFree(r.bundle[1])

\* The same for the rows of one series only, which is what the code gives.
C18_LeakageFreedomOneSeries ==
    LET r == comp.split
    IN  (/\ r # << >> /\ r.bundle # None /\ "raised" \notin DOMAIN r.bundle[1]
         /\ \A i, j \in DOMAIN r.rows : r.rows[i].series_id = r.rows[j].series_id)
            => LeakageFree(r.bundle[1])

\* ------------------------------------------------------------------------
\* backtesting.py: WalkForwardBacktester.run

\* The largest window_size, step_size and max_windows tried.
MaxBacktest == 2

\* The longest row list backtested.
MaxBacktestRows == 3

\* The targets a row may carry.
BacktestTargets == {0, 1000}

RECURSIVE SqrtSearch(_, _, _)
\* The largest r in lo..(hi - 1) with r * r <= n, given lo * lo <= n < hi * hi.
SqrtSearch(n, lo, hi) ==
    IF hi - lo <= 1 THEN lo
    ELSE LET mid == (lo + hi) \div 2
         IN  IF mid * mid <= n THEN SqrtSearch(n, mid, hi) ELSE SqrtSearch(n, lo, mid)

\* x ** 0.5 for a scalar x >= 0.
Sqrt(x) == SqrtSearch(x * Scale, 0, 46341)

\* metrics.mae(actual, predicted)
mae(actual, predicted) ==
    LET m == Min2(Len(actual), Len(predicted))
    IN  DivN(SumSeq([i \in 1..m |-> Abs(actual[i] - predicted[i])]), Max2(1, m))

\* metrics.rmse(actual, predicted)
rmse(actual, predicted) ==
    LET m == Min2(Len(actual), Len(predicted))
    IN  Sqrt(DivN(SumSeq([i \in 1..m |-> Mul(actual[i] - predicted[i],
                                             actual[i] - predicted[i])]),
                  Max2(1, m)))

\* xs[i] of Python for a list xs: a negative i counts from the end, and an
\* i outside -len..len-1 is an IndexError, here None.
PyIndex(xs, i) ==
    IF 0 <= i /\ i < Len(xs) THEN Some(xs[i + 1])
    ELSE IF -Len(xs) <= i /\ i < 0 THEN Some(xs[Len(xs) + i + 1])
    ELSE None

\* game.run(init, rounds=k, disturbed=True) of a fresh ForecastGame(cfg, seed=s)
ForecastGame_run_rounds(cfg, s, initial, k, disturbed, elapsed) ==
    RunSummary(cfg, s,
               RunLoop(cfg, EffectiveRounds(Some(k), cfg), disturbed, elapsed, 0,
                       [rng |-> RandomSeeded(s), state |-> initial,
                        refactor_bias |-> 0, cumulative_rewards |-> EmptyMapping,
                        forecasts |-> << >>, targets |-> << >>]))

WindowResult(window_idx, train_start, train_end, test_start, test_end, w_mae,
             w_rmse, n_forecasts) ==
    [window_idx |-> window_idx, train_start |-> train_start,
     train_end |-> train_end, test_start |-> test_start, test_end |-> test_end,
     mae |-> w_mae, rmse |-> w_rmse, n_forecasts |-> n_forecasts]

BacktestResult(n_windows, window_results, aggregate_mae, aggregate_rmse) ==
    [n_windows |-> n_windows, window_results |-> window_results,
     aggregate_mae |-> aggregate_mae, aggregate_rmse |-> aggregate_rmse]

\* WalkForwardBacktester(config, window_size, step_size) with the default seed
WalkForwardBacktester(cfg, window_size, step_size) ==
    [config |-> cfg, window_size |-> window_size, step_size |-> step_size,
     seed |-> 42]

\* The locals of run() before the loop; engines lists, per window, the seed
\* its ForecastGame was built with and the rounds its run was asked for.
BacktestLocals(bt, rows, max_windows) ==
    [bt |-> bt, rows |-> rows, max_windows |-> max_windows, pc |-> "idle",
     start |-> 0, window_idx |-> 0, window_results |-> << >>,
     all_forecasts |-> << >>, all_targets |-> << >>, engines |-> << >>,
     result |-> None]

\* The loop condition of line 54.
WindowFits(r) ==
    /\ r.start + r.bt.window_size + r.bt.step_size <= Len(r.rows)
    /\ r.window_idx < r.max_windows

\* WindowTurn with start advanced by one row whatever step_size is.
WindowTurnByOne(r, train_end, test_end, out) ==
    LET scored == out.forecasts # << >> /\ out.targets # << >>
    IN  [r EXCEPT
           !.window_results = Append(@,
               WindowResult(r.window_idx, r.start, train_end, train_end, test_end,
                            IF scored THEN mae(out.targets, out.forecasts) ELSE 0,
                            IF scored THEN rmse(out.targets, out.forecasts) ELSE 0,
                            Len(out.forecasts))),
           !.all_forecasts = IF scored THEN @ \o out.forecasts ELSE @,
           !.all_targets = IF scored THEN @ \o out.targets ELSE @,
           !.start = @ + 1,
           !.window_idx = @ + 1]

\* One turn of the loop (lines 55-87) from the locals r, the window's train
\* row being train_last and its run giving out.
WindowTurn(r, train_end, test_end, out) ==
    LET scored == out.forecasts # << >> /\ out.targets # << >>
    IN  [r EXCEPT
           !.window_results = Append(@,
               WindowResult(r.window_idx, r.start, train_end, train_end, test_end,
                            IF scored THEN mae(out.targets, out.forecasts) ELSE 0,
                            IF scored THEN rmse(out.targets, out.forecasts) ELSE 0,
                            Len(out.forecasts))),
           !.all_forecasts = IF scored THEN @ \o out.forecasts ELSE @,
           !.all_targets = IF scored THEN @ \o out.targets ELSE @,
           !.start = @ + r.bt.step_size,
           !.window_idx = @ + 1]

\* run() is entered: lines 43-52.
BacktestEnter ==
    LET r == comp.backtest
    IN  /\ r.pc = "idle"
        /\ comp' = [comp EXCEPT !.backtest =
              IF Len(r.rows) < r.bt.window_size + r.bt.step_size
              THEN [r EXCEPT !.pc = "returned",
                             !.result = Some(BacktestResult(0, << >>, 0, 0))]
              ELSE [r EXCEPT !.pc = "loop"]]
        /\ UNCHANGED << engine_vars, ev >>

\* One window: lines 54-87.  rows[train_end - 1] outside the list raises
\* IndexError out of run().
BacktestWindow ==
    LET r == comp.backtest
        n == Len(r.rows)
        train_end == r.start + r.bt.window_size
        test_end == Min2(train_end + r.bt.step_size, n)
        test_rows == Slice(r.rows, train_end, test_end)
        train_last == PyIndex(r.rows, train_end - 1)
    IN  /\ r.pc = "loop"
        /\ WindowFits(r)
        /\ IF train_last = None
           THEN comp' = [comp EXCEPT !.backtest.pc = "raised"]
           ELSE \E elapsed \in [1..EffectiveRounds(Some(Len(test_rows)), r.bt.config)
                                   -> ElapsedValues] :
                  comp' = [comp EXCEPT !.backtest =
                     [WindowTurn(r, train_end, test_end,
                        ForecastGame_run_rounds(r.bt.config, r.bt.seed + r.window_idx,
                            ForecastState(0, train_last[1], 0, 0),
                            Len(test_rows), TRUE, elapsed))
                      EXCEPT !.engines = Append(@,
                          [seed |-> r.bt.seed + r.window_idx,
                           rounds |-> Len(test_rows)])]]
        /\ UNCHANGED << engine_vars, ev >>

\* The loop is left and run() returns: lines 54, 89-97.
BacktestReturn ==
    LET r == comp.backtest
    IN  /\ r.pc = "loop"
        /\ ~WindowFits(r)
        /\ comp' = [comp EXCEPT
              !.backtest.pc = "returned",
              !.backtest.result = Some(BacktestResult(
                  Len(r.window_results), r.window_results,
                  IF r.all_forecasts # << >> THEN mae(r.all_targets, r.all_forecasts) ELSE 0,
                  IF r.all_forecasts # << >> THEN rmse(r.all_targets, r.all_forecasts) ELSE 0))]
        /\ UNCHANGED << engine_vars, ev >>

\* The row lists of length at most n, each row a target.
RECURSIVE TargetLists(_)
TargetLists(n) ==
    IF n = 0 THEN {<< >>}
    ELSE TargetLists(n - 1) \cup
         {Append(l, x) : l \in {y \in TargetLists(n - 1) : Len(y) = n - 1},
                         x \in BacktestTargets}

InitBacktest ==
    /\ Constructed(DefaultConfig, 0, DefaultRegistry(DefaultConfig))
    /\ ev = << >>
    /\ \E cfg \in RunnerConfigs, rows \in TargetLists(MaxBacktestRows) :
       \E window_size \in 0..MaxBacktest, step_size \in 0..MaxBacktest,
          max_windows \in 0..MaxBacktest :
          comp = [NoComponents EXCEPT !.backtest =
                     BacktestLocals(WalkForwardBacktester(cfg, window_size, step_size),
                                    rows, max_windows)]

NextBacktest == BacktestEnter \/ BacktestWindow \/ BacktestReturn

SpecBacktest == InitBacktest /\ [][NextBacktest]_vars

\* C19: run returns zero windows whenever len(rows) < window_size +
\* step_size, and never raises, for any row list, the empty one included,
\* and every non-negative window_size and step_size.
C19_BacktesterRobust ==
    LET r == comp.backtest
    IN  r # << >> =>
          /\ r.pc # "raised"
          /\ (r.pc = "returned" /\ Len(r.rows) < r.bt.window_size + r.bt.step_size)
                => r.result[1].n_windows = 0

\* The part of C19 the code keeps: zero windows for too few rows, and no
\* fault unless the list is empty and window_size = step_size = 0.
C19_RaisesOnlyOnEmptyZeroWindow ==
    LET r == comp.backtest
    IN  r # << >> =>
          /\ r.pc = "raised" =>
                r.rows = << >> /\ r.bt.window_size = 0 /\ r.bt.step_size = 0
          /\ (r.pc = "returned" /\ Len(r.rows) < r.bt.window_size + r.bt.step_size)
                => r.result[1].n_windows = 0

\* C28: window k has train range [k*S, k*S + W) and test range
\* [k*S + W, k*S + W + S), and its engine is built with seed base_seed + k and
\* asked for len(test_rows) = S rounds; at most max_windows windows are made,
\* and on return they are exactly the k < max_windows with k*S + W + S <= N;
\* for S > 0 each test range starts where the previous one ended and no test
\* range starts before its own training range ends.
C28_WindowStructure ==
    LET r == comp.backtest
    IN  r # << >> =>
          LET S == r.bt.step_size
              W == r.bt.window_size
              ws == r.window_results
          IN  /\ Len(r.engines) = Len(ws)
              /\ Len(ws) <= r.max_windows
              /\ \A i \in DOMAIN ws :
                    /\ ws[i].window_idx = i - 1
                    /\ ws[i].train_start = (i - 1) * S
                    /\ ws[i].train_end = (i - 1) * S + W
                    /\ ws[i].test_start = (i - 1) * S + W
                    /\ ws[i].test_end = (i - 1) * S + W + S
                    /\ r.engines[i] = [seed |-> r.bt.seed + (i - 1), rounds |-> S]
                    /\ ws[i].n_forecasts <= S
              /\ r.pc = "returned" =>
                    /\ r.result[1].window_results = ws
                    /\ DOMAIN ws = {i \in 1..r.max_windows :
                                       (i - 1) * S + W + S <= Len(r.rows)}
              /\ S > 0 =>
                    /\ \A i \in DOMAIN ws :
                          i > 1 => ws[i].test_start = ws[i - 1].test_end
                    /\ \A i \in DOMAIN ws :
                          ws[i].train_end <= ws[i].test_start

\* A returned backtest of two windows with a training range and a test range
\* of one row each.
C28_Witness ==
    LET r == comp.backtest
    IN  /\ r # << >>
        /\ r.pc = "returned"
        /\ r.bt.step_size > 0
        /\ r.bt.window_size > 0
        /\ r.result[1].n_windows = 2
        /\ r.window_results[2].train_start = 1
        /\ r.window_results[2].test_end = Len(r.rows)

\* ------------------------------------------------------------------------
\* training.py: QTableAgent and its persisted form

\* The most act and update calls made on one agent.
MaxAgentCalls == 3

\* int(x) for a scalar x: the integer toward zero.
PyInt(x) == Sgn(x) * (Abs(x) \div Scale)

\* The buckets of _state_hash on each axis (its n_buckets default).
n_buckets == 50

\* _state_hash(st)
state_hash(st) ==
    LET v_bucket == PyInt((st.value % (100 * Scale)) \div 2) % n_buckets
        e_bucket == PyInt((st.exogenous + 5 * Scale) * 5) % n_buckets
    IN  v_bucket * n_buckets + e_bucket

\* The characters of a decimal numeral.
Digits == << "0", "1", "2", "3", "4", "5", "6", "7", "8", "9" >>

RECURSIVE StrNat(_)
\* str(k) for an int k >= 0, a string being the sequence of its characters.
StrNat(k) ==
    IF k < 10 THEN << Digits[k + 1] >>
    ELSE Append(StrNat(k \div 10), Digits[(k % 10) + 1])

\* str(k) for an int k
PyStr(k) == IF k < 0 THEN << "-" >> \o StrNat(-k) ELSE StrNat(k)

RECURSIVE IntNat(_)
\* int(s) for a string s of digits
IntNat(s) ==
    IF s = << >> THEN 0
    ELSE 10 * IntNat(SubSeq(s, 1, Len(s) - 1)) +
         (CHOOSE d \in 0..9 : Digits[d + 1] = s[Len(s)])

\* int(s) for a string s that is a decimal numeral
PyIntOfStr(s) == IF s # << >> /\ Head(s) = "-" THEN -IntNat(Tail(s)) ELSE IntNat(s)

\* np.zeros(n): a float64 array.
np_zeros(n) == [dtype |-> "float64", items |-> [i \in 1..n |-> 0]]

\* np.array(v) for a list v of floats
np_array(v) == [dtype |-> "float64", items |-> v]

\* v.tolist() for an array v
tolist(v) == v.items

\* float(np.max(q))
np_max(q) == CHOOSE x \in {q.items[i] : i \in DOMAIN q.items} :
                 \A i \in DOMAIN q.items : q.items[i] <= x

\* int(np.argmax(q)): the first index, from 0, of the largest entry.
np_argmax(q) ==
    (CHOOSE i \in DOMAIN q.items :
        /\ q.items[i] = np_max(q)
        /\ \A k \in DOMAIN q.items : q.items[k] = np_max(q) => i <= k) - 1

\* rng.randint(a, b), one draw of the stream spread over a..b.
RandomRandint(gen, a, b) ==
    LET nx == RngStep(gen.x)
    IN  [val |-> a + (nx * (b - a + 1)) \div RngMod, rng |-> [gen EXCEPT !.x = nx]]

DiscreteActionSpace(n_bins, max_delta) == [n_bins |-> n_bins, max_delta |-> max_delta]

\* QTableAgent(action_space=..., epsilon=...), the other fields by default.
QTableAgent(action_space, epsilon) ==
    [action_space |-> action_space, alpha |-> 100, gamma |-> 950,
     epsilon |-> epsilon, epsilon_decay |-> 995, epsilon_min |-> 50,
     q_table |-> EmptyMapping, rng |-> RandomSeeded(42)]

\* The _q_table after _get_q(state_key).
QTableAgent_get_q(q_table, n_bins, state_key) ==
    IF state_key \in DOMAIN q_table THEN q_table
    ELSE [k \in DOMAIN q_table \cup {state_key} |->
              IF k = state_key THEN np_zeros(n_bins) ELSE q_table[k]]

\* act(st): the action and the agent after the call.
QTableAgent_act(agent, st) ==
    LET state_key == state_hash(st)
        u == RandomUnit(agent.rng)
    IN  IF u.val < agent.epsilon
        THEN LET d == RandomRandint(u.rng, 0, agent.action_space.n_bins - 1)
             IN  [action |-> d.val, agent |-> [agent EXCEPT !.rng = d.rng]]
        ELSE LET qt == QTableAgent_get_q(agent.q_table, agent.action_space.n_bins,
                                         state_key)
             IN  [action |-> np_argmax(qt[state_key]),
                  agent |-> [agent EXCEPT !.rng = u.rng, !.q_table = qt]]

\* The agent after update(st, action, reward, next_state), the TD error
\* being td_error.
QTableAgent_updated(agent, qt, s_key, action, td_error) ==
    [agent EXCEPT
        !.q_table = [qt EXCEPT ![s_key].items[action + 1] = @ + Mul(agent.alpha, td_error)],
        !.epsilon = Max2(agent.epsilon_min, Mul(agent.epsilon, agent.epsilon_decay))]

\* update(st, action, reward, next_state)
QTableAgent_update(agent, st, action, reward, next_state) ==
    LET s_key == state_hash(st)
        ns_key == state_hash(next_state)
        qt == QTableAgent_get_q(
                  QTableAgent_get_q(agent.q_table, agent.action_space.n_bins, s_key),
                  agent.action_space.n_bins, ns_key)
    IN  QTableAgent_updated(agent, qt, s_key, action,
            reward + Mul(agent.gamma, np_max(qt[ns_key])) - qt[s_key].items[action + 1])

\* to_dict()
QTableAgent_to_dict(agent) ==
    [q_table |-> [s \in {PyStr(k) : k \in DOMAIN agent.q_table} |->
                     tolist(agent.q_table[CHOOSE k \in DOMAIN agent.q_table : PyStr(k) = s])],
     epsilon |-> agent.epsilon,
     n_bins |-> agent.action_space.n_bins,
     max_delta |-> agent.action_space.max_delta]

\* A faulty variant of from_dict: the stored epsilon is not read, the
\* fallback 0.05 is taken.
QTableAgent_from_dict_fallback_epsilon(data) ==
    [QTableAgent(DiscreteActionSpace(data.n_bins, data.max_delta), 50)
        EXCEPT !.q_table = [k \in {PyIntOfStr(s) : s \in DOMAIN data.q_table} |->
                   np_array(data.q_table[CHOOSE s \in DOMAIN data.q_table :
                                             PyIntOfStr(s) = k])]]

\* from_dict(data)
QTableAgent_from_dict(data) ==
    [QTableAgent(DiscreteActionSpace(data.n_bins, data.max_delta),
                 IF "epsilon" \in DOMAIN data THEN data.epsilon ELSE 50)
        EXCEPT !.q_table = [k \in {PyIntOfStr(s) : s \in DOMAIN data.q_table} |->
                   np_array(data.q_table[CHOOSE s \in DOMAIN data.q_table :
                                             PyIntOfStr(s) = k])]]

\* The states, rewards and constructor arguments of the model.
PolicyStates ==
    {ForecastState(0, 0, 0, 0), ForecastState(1, 12500, -6200, 0)}

PolicyRewards == {-1000, 1000}

PolicyBins == {2, 3}

PolicyDeltas == {500, 1000}

PolicyEpsilons == {300, 1000}

\* The trainer asks the agent for an action.
QAct ==
    LET r == comp.policy
    IN  /\ r.calls < MaxAgentCalls
        /\ r.data = None
        /\ \E st \in PolicyStates :
            LET a == QTableAgent_act(r.agent, st)
            IN  comp' = [comp EXCEPT !.policy.agent = a.agent,
                                     !.policy.calls = @ + 1]
        /\ UNCHANGED << engine_vars, ev >>

\* The trainer feeds one transition back.
QUpdate ==
    LET r == comp.policy
    IN  /\ r.calls < MaxAgentCalls
        /\ r.data = None
        /\ \E st \in PolicyStates, next_state \in PolicyStates,
              reward \in PolicyRewards,
              action \in 0..(r.agent.action_space.n_bins - 1) :
            comp' = [comp EXCEPT
                        !.policy.agent = QTableAgent_update(r.agent, st, action,
                                                            reward, next_state),
                        !.policy.calls = @ + 1]
        /\ UNCHANGED << engine_vars, ev >>

\* The agent is serialized.
ToDict ==
    LET r == comp.policy
    IN  /\ r.data = None
        /\ comp' = [comp EXCEPT !.policy.data = Some(QTableAgent_to_dict(r.agent))]
        /\ UNCHANGED << engine_vars, ev >>

\* An agent is built from the serialized form.
FromDict ==
    LET r == comp.policy
    IN  /\ r.data # None
        /\ r.restored = None
        /\ comp' = [comp EXCEPT !.policy.restored = Some(QTableAgent_from_dict(r.data[1]))]
        /\ UNCHANGED << engine_vars, ev >>

InitPolicy ==
    /\ Constructed(DefaultConfig, 0, DefaultRegistry(DefaultConfig))
    /\ ev = << >>
    /\ \E n_bins \in PolicyBins, max_delta \in PolicyDeltas, epsilon \in PolicyEpsilons :
          comp = [NoComponents EXCEPT
                     !.policy = [agent |-> QTableAgent(DiscreteActionSpace(n_bins, max_delta),
                                                       epsilon),
                                 calls |-> 0, data |-> None, restored |-> None]]

NextPolicy == QAct \/ QUpdate \/ ToDict \/ FromDict

SpecPolicy == InitPolicy /\ [][NextPolicy]_vars

\* C20: for every agent state reachable by act and update calls,
\* from_dict(to_dict(agent)) has the agent's q_table, epsilon, n_bins and
\* max_delta, and to_dict(from_dict(to_dict(agent))) = to_dict(agent).
C20_PolicyRoundTrip ==
    LET r == comp.policy
    IN  (r # << >> /\ r.restored # None) =>
          /\ r.restored[1].q_table = r.agent.q_table
          /\ r.restored[1].epsilon = r.agent.epsilon
          /\ r.restored[1].action_space = r.agent.action_space
          /\ QTableAgent_to_dict(r.restored[1]) = r.data[1]
          /\ r.data[1] = QTableAgent_to_dict(r.agent)

\* An agent restored after three calls, its table holding two states, one
\* of them with a learned value, and its epsilon decayed.
C20_Witness ==
    LET r == comp.policy
    IN  /\ r # << >> /\ r.restored # None
        /\ r.calls = 3
        /\ Cardinality(DOMAIN r.restored[1].q_table) = 2
        /\ \E k \in DOMAIN r.restored[1].q_table :
              \E i \in DOMAIN r.restored[1].q_table[k].items :
                  r.restored[1].q_table[k].items[i] # 0
        /\ r.restored[1].epsilon \notin PolicyEpsilons
        /\ << "3", "4", "4" >> \in DOMAIN r.data[1].q_table

\* ------------------------------------------------------------------------
\* training.py: WoLFPHCAgent
\*
\* A policy vector is kept exactly: entry a is nums[a + 1] / den, the
\* fraction in lowest terms over the whole vector.

\* The most update calls made on one WoLF-PHC agent.
MaxWolfUpdates == 3

RECURSIVE Gcd(_, _)
\* The greatest common divisor of a >= 0 and b >= 0.
Gcd(a, b) == IF b = 0 THEN a ELSE Gcd(b, a % b)

RECURSIVE GcdAll(_)
GcdAll(xs) == IF xs = << >> THEN 0 ELSE Gcd(Head(xs), GcdAll(Tail(xs)))

\* The vector nums / den in lowest terms (den > 0, nums >= 0).
Vec(nums, den) ==
    LET g == Gcd(GcdAll(nums), den)
    IN  [nums |-> [i \in DOMAIN nums |-> nums[i] \div g], den |-> den \div g]

\* np.ones(n) / n
UniformPolicy(n) == Vec([i \in 1..n |-> 1], n)

\* A faulty variant of Renormalized: `pi /= total` is left out.
RenormalizedNot(nums, den) == Vec(nums, den)

\* total = pi.sum(); if total > 0: pi /= total (lines 157-159)
Renormalized(nums, den) ==
    IF SumSeq(nums) > 0 THEN Vec(nums, SumSeq(nums)) ELSE Vec(nums, den)

\* avg_pi += (pi - avg_pi) / c (line 142)
AveragedPolicy(avg_pi, pi, c) ==
    Vec([i \in DOMAIN avg_pi.nums |->
            avg_pi.nums[i] * pi.den * (c - 1) + pi.nums[i] * avg_pi.den],
        avg_pi.den * pi.den * c)

\* np.dot(p, q) >= np.dot(r, q) for policy vectors p, r and a Q row q
DotAtLeast(p, r, q) ==
    SumSeq([i \in DOMAIN q.items |-> p.nums[i] * q.items[i]]) * r.den
        >= SumSeq([i \in DOMAIN q.items |-> r.nums[i] * q.items[i]]) * p.den

\* The loop of lines 151-155 for the step delta = d.num / d.den, then the
\* renormalization: entries over the denominator pi.den * d.den * max(1, n - 1).
HillClimbed(pi, d, best_action, n) ==
    LET m == Max2(1, n - 1)
        one == pi.den * d.den * m
    IN  Renormalized(
            [i \in DOMAIN pi.nums |->
                IF i - 1 = best_action
                THEN Min2(one, pi.nums[i] * d.den * m + d.num * pi.den * m)
                ELSE Max2(0, pi.nums[i] * d.den * m - d.num * pi.den)],
            one)

\* WoLFPHCAgent(action_space=..., delta_win=..., delta_lose=...)
WoLFPHCAgent(action_space, delta_win, delta_lose) ==
    [action_space |-> action_space, alpha |-> 100, gamma |-> 950,
     epsilon |-> 1000, epsilon_decay |-> 995, epsilon_min |-> 50,
     q_table |-> EmptyMapping, rng |-> RandomSeeded(42),
     delta_win |-> delta_win, delta_lose |-> delta_lose,
     policy |-> EmptyMapping, avg_policy |-> EmptyMapping,
     visit_count |-> EmptyMapping]

\* The mapping d with d[k] = v.
Stored(d, k, v) == [x \in DOMAIN d \cup {k} |-> IF x = k THEN v ELSE d[x]]

\* The agent after _get_policy(state_key).
WoLFPHCAgent_get_policy(agent, state_key) ==
    IF state_key \in DOMAIN agent.policy THEN agent
    ELSE [agent EXCEPT
            !.policy = Stored(@, state_key, UniformPolicy(agent.action_space.n_bins)),
            !.avg_policy = Stored(@, state_key, UniformPolicy(agent.action_space.n_bins)),
            !.visit_count = Stored(@, state_key, 0)]

\* Lines 138-159 on the agent a1 that super().update and _get_policy left.
WoLFPHCAgent_climb(a1, state_key) ==
    LET pi == a1.policy[state_key]
        c == (IF state_key \in DOMAIN a1.visit_count
              THEN a1.visit_count[state_key] ELSE 0) + 1
        avg_pi == AveragedPolicy(a1.avg_policy[state_key], pi, c)
        q == a1.q_table[state_key]
        d == IF DotAtLeast(pi, avg_pi, q) THEN a1.delta_win ELSE a1.delta_lose
    IN  [a1 EXCEPT
            !.visit_count = Stored(@, state_key, c),
            !.avg_policy = Stored(@, state_key, avg_pi),
            !.policy = Stored(@, state_key,
                              HillClimbed(pi, d, np_argmax(q), a1.action_space.n_bins))]

\* update(state, action, reward, next_state)
WoLFPHCAgent_update(agent, st, action, reward, next_state) ==
    WoLFPHCAgent_climb(
        WoLFPHCAgent_get_policy(
            QTableAgent_update(agent, st, action, reward, next_state),
            state_hash(st)),
        state_hash(st))

\* The step sizes (delta_win, delta_lose) tried: the defaults 0.01 and
\* 0.04, and 1/4 and 1/2, with which entries are clipped within three updates.
WolfDeltas ==
    { << [num |-> 1, den |-> 100], [num |-> 4, den |-> 100] >>,
      << [num |-> 1, den |-> 4], [num |-> 1, den |-> 2] >> }

\* The trainer feeds one transition back to the agent.
WolfUpdate ==
    LET r == comp.wolf
    IN  /\ r.updates < MaxWolfUpdates
        /\ \E st \in PolicyStates, next_state \in PolicyStates,
              reward \in PolicyRewards,
              action \in 0..(r.agent.action_space.n_bins - 1) :
            comp' = [comp EXCEPT
                !.wolf.agent = WoLFPHCAgent_update(r.agent, st, action, reward, next_state),
                !.wolf.updates = @ + 1,
                !.wolf.applied = Stored(@, state_hash(st),
                    (IF state_hash(st) \in DOMAIN @ THEN @[state_hash(st)] ELSE 0) + 1)]
        /\ UNCHANGED << engine_vars, ev >>

InitWolf ==
    /\ Constructed(DefaultConfig, 0, DefaultRegistry(DefaultConfig))
    /\ ev = << >>
    /\ \E n_bins \in PolicyBins, max_delta \in PolicyDeltas, ds \in WolfDeltas :
          comp = [NoComponents EXCEPT
                     !.wolf = [agent |-> WoLFPHCAgent(DiscreteActionSpace(n_bins, max_delta),
                                                      ds[1], ds[2]),
                               updates |-> 0, applied |-> EmptyMapping]]

NextWolf == WolfUpdate

SpecWolf == InitWolf /\ [][NextWolf]_vars

\* The vector v has all entries in [0, 1] and sums to 1.
OnSimplex(v) ==
    /\ \A i \in DOMAIN v.nums : 0 <= v.nums[i] /\ v.nums[i] <= v.den
    /\ SumSeq(v.nums) = v.den

\* C21: after any sequence of update calls, for every visited state key
\* the policy and the average policy each have all entries in [0, 1] and
\* sum to 1, and the visit count is the number of updates applied to the key.
C21_WolfSimplex ==
    LET r == comp.wolf
    IN  r # << >> =>
          /\ DOMAIN r.agent.policy = DOMAIN r.applied
          /\ DOMAIN r.agent.avg_policy = DOMAIN r.applied
          /\ DOMAIN r.agent.visit_count = DOMAIN r.applied
          /\ \A k \in DOMAIN r.applied :
                /\ OnSimplex(r.agent.policy[k])
                /\ OnSimplex(r.agent.avg_policy[k])
                /\ r.agent.visit_count[k] = r.applied[k]

\* Three updates of one state key after which one entry of its policy has
\* been clipped to 0, another lies strictly between 0 and 1, and the
\* average policy differs from the policy.
C21_Witness ==
    LET r == comp.wolf
    IN  /\ r # << >>
        /\ \E k \in DOMAIN r.applied :
              /\ r.applied[k] = 3
              /\ \E i \in DOMAIN r.agent.policy[k].nums : r.agent.policy[k].nums[i] = 0
              /\ \E i \in DOMAIN r.agent.policy[k].nums :
                    /\ 0 < r.agent.policy[k].nums[i]
                    /\ r.agent.policy[k].nums[i] < r.agent.policy[k].den
              /\ r.agent.avg_policy[k] # r.agent.policy[k]

\* ------------------------------------------------------------------------
\* training.py: RADversarialTrainer.train

\* The most epochs of one training.
MaxEpochs == 3

RECURSIVE RunLogs(_, _, _, _, _, _)
RECURSIVE LogStep(_, _, _, _, _, _, _)
\* out.trajectory_logs of run(): the round loop from round i, the rounds
\* taking the times elapsed, acc.logs being the entries appended so far.
RunLogs(cfg, n, disturbed, elapsed, i, acc) ==
    IF i >= n THEN acc.logs
    ELSE LogStep(cfg, n, disturbed, elapsed, i, acc,
                 RoundBody(cfg, DefaultRegistry(cfg), acc.rng, acc.state,
                           acc.refactor_bias, acc.cumulative_rewards, i,
                           disturbed, elapsed[i + 1]))

LogStep(cfg, n, disturbed, elapsed, i, acc, r) ==
    IF r.status # "ok" THEN acc.logs
    ELSE RunLogs(cfg, n, disturbed, elapsed, i + 1,
                 [rng |-> r.rng, state |-> r.next_state,
                  refactor_bias |-> r.refactor_bias,
                  cumulative_rewards |-> r.cumulative_rewards,
                  logs |-> Append(acc.logs, r.log)])

\* ForecastGame(cfg, seed=s).run(init_state, disturbed=True).trajectory_logs
TrajectoryLogs(cfg, s, init_state, elapsed) ==
    RunLogs(cfg, EffectiveRounds(None, cfg), TRUE, elapsed, 0,
            [rng |-> RandomSeeded(s), state |-> init_state, refactor_bias |-> 0,
             cumulative_rewards |-> EmptyMapping, logs |-> << >>])

\* idx = agent.act(s); agent.update(s, idx, reward, ns): the agent after both.
ActThenUpdate(agent, s, reward, ns) ==
    QTableAgent_update(QTableAgent_act(agent, s).agent, s,
                       QTableAgent_act(agent, s).action, reward, ns)

\* A faulty variant of TrainOnLog: both agents learn from every entry, as
\* in TrainingLoop.train.
TrainOnLogBoth(train_forecaster, pair, s, ns, reward) ==
    [forecaster |-> ActThenUpdate(pair.forecaster, s, reward, ns),
     adversary |-> ActThenUpdate(pair.adversary, s, -reward, ns)]

\* Lines 276-281 for one log entry: s and ns are the states of lines
\* 272-273, pair the two agents.
TrainOnLog(train_forecaster, pair, s, ns, reward) ==
    IF train_forecaster
    THEN [pair EXCEPT !.forecaster = ActThenUpdate(pair.forecaster, s, reward, ns)]
    ELSE [pair EXCEPT !.adversary = ActThenUpdate(pair.adversary, s, -reward, ns)]

RECURSIVE TrainOnLogs(_, _, _, _)
\* The loop of lines 270-281 from entry k of logs.
TrainOnLogs(train_forecaster, pair, logs, k) ==
    IF k > Len(logs) THEN pair
    ELSE TrainOnLogs(train_forecaster,
            TrainOnLog(train_forecaster, pair,
                ForecastState(logs[k].state.t, logs[k].state.value,
                              logs[k].state.exogenous, logs[k].state.hidden_shift),
                ForecastState(logs[k].state.t + 1, logs[k].target,
                              logs[k].state.exogenous, logs[k].state.hidden_shift),
                logs[k].reward),
            logs, k + 1)

\* (epoch // alternation_schedule) % 2 == 0
TrainsForecaster(epoch, alternation_schedule) ==
    (epoch \div alternation_schedule) % 2 = 0

\* RADversarialTrainer(config, alternation_schedule, total_epochs) with the
\* default seed
RADversarialTrainer(cfg, alternation_schedule, total_epochs) ==
    [config |-> cfg, alternation_schedule |-> alternation_schedule,
     total_epochs |-> total_epochs, seed |-> 42]

\* One epoch of train(): lines 265-287.  alternation_schedule = 0 makes
\* line 266 raise ZeroDivisionError.
RadEpoch ==
    LET r == comp.rad
    IN  /\ r.pc = "loop"
        /\ r.epoch < r.trainer.total_epochs
        /\ IF r.trainer.alternation_schedule = 0
           THEN comp' = [comp EXCEPT !.rad.pc = "raised"]
           ELSE \E elapsed \in ElapsedRuns(r.trainer.config) :
                  comp' = [comp EXCEPT
                     !.rad.agents = TrainOnLogs(
                         TrainsForecaster(r.epoch, r.trainer.alternation_schedule),
                         r.agents,
                         TrajectoryLogs(r.trainer.config, r.trainer.seed + r.epoch,
                                        r.init_state, elapsed),
                         1),
                     !.rad.before = Some([epoch |-> r.epoch, agents |-> r.agents]),
                     !.rad.epoch = @ + 1]
        /\ UNCHANGED << engine_vars, ev >>

\* train() returns: lines 289-293.
RadReturn ==
    LET r == comp.rad
    IN  /\ r.pc = "loop"
        /\ r.epoch >= r.trainer.total_epochs
        /\ comp' = [comp EXCEPT !.rad.pc = "returned"]
        /\ UNCHANGED << engine_vars, ev >>

InitRad ==
    /\ Constructed(DefaultConfig, 0, DefaultRegistry(DefaultConfig))
    /\ ev = << >>
    /\ \E cfg \in RunnerConfigs, alternation_schedule \in 0..2,
          total_epochs \in 0..MaxEpochs, n_bins \in PolicyBins,
          ef \in PolicyEpsilons, ea \in PolicyEpsilons :
          comp = [NoComponents EXCEPT
              !.rad = [trainer |-> RADversarialTrainer(cfg, alternation_schedule,
                                                       total_epochs),
                       init_state |-> ForecastState(0, 10000, 0, 0),
                       agents |-> [forecaster |->
                                      QTableAgent(DiscreteActionSpace(n_bins, 1000), ef),
                                   adversary |->
                                      QTableAgent(DiscreteActionSpace(n_bins, 1000), ea)],
                       epoch |-> 0, pc |-> "loop", before |-> None]]

NextRad == RadEpoch \/ RadReturn

SpecRad == InitRad /\ [][NextRad]_vars

\* C22: during every epoch e with (e // alternation_schedule) even the
\* adversary's state (Q-table, epsilon, random stream) is unchanged, and
\* during every epoch with it odd the forecaster's is unchanged.
C22_AlternatingFrame ==
    LET r == comp.rad
    IN  (r # << >> /\ r.before # None) =>
          IF TrainsForecaster(r.before[1].epoch, r.trainer.alternation_schedule)
          THEN r.agents.adversary = r.before[1].agents.adversary
          ELSE r.agents.forecaster = r.before[1].agents.forecaster

\* An adversary epoch just run after a forecaster epoch: the adversary
\* learned in it (its table, epsilon and stream moved) and the forecaster,
\* which had learned before, did not.
C22_Witness ==
    LET r == comp.rad
    IN  /\ r # << >> /\ r.before # None
        /\ ~TrainsForecaster(r.before[1].epoch, r.trainer.alternation_schedule)
        /\ r.agents.adversary.q_table # r.before[1].agents.adversary.q_table
        /\ r.agents.adversary.epsilon # r.before[1].agents.adversary.epsilon
        /\ r.agents.adversary.rng # r.before[1].agents.adversary.rng
        /\ r.agents.forecaster.q_table # EmptyMapping
        /\ r.agents.forecaster = r.before[1].agents.forecaster

\* ------------------------------------------------------------------------
\* data.py: detect_poisoning_rows

\* The longest row list screened.
MaxPoisonRows == 4

RECURSIVE InsertSorted(_, _)
\* The ascending list xs with x put in its place.
InsertSorted(x, xs) ==
    IF xs = << >> THEN << x >>
    ELSE IF x <= Head(xs) THEN << x >> \o xs
    ELSE << Head(xs) >> \o InsertSorted(x, Tail(xs))

RECURSIVE sorted(_)
\* sorted(xs)
sorted(xs) == IF xs = << >> THEN << >> ELSE InsertSorted(Head(xs), sorted(Tail(xs)))

\* z >= z_threshold or mz >= mad_threshold (lines 158-160), with the
\* default thresholds 6.0 and 8.0; 0.6745 is 6745 / 10000.
IsSuspect(x, mean, std, median, mad) ==
    \/ DivS(Abs(x - mean), std) >= 6 * Scale
    \/ 6745 * Abs(x - median) >= 8 * 10000 * mad

\* Lines 157-162, given the four statistics: the suspect targets in order.
Suspects(vals, mean, std, median, mad) ==
    SelectSeq(vals, LAMBDA x : IsSuspect(x, mean, std, median, mad))

\* Lines 150-155, given the mean: std, median and MAD.
Screened(vals, mean, var, sorted_vals) ==
    LET median == sorted_vals[(Len(vals) \div 2) + 1]
        abs_dev == sorted([i \in DOMAIN vals |-> Abs(vals[i] - median)])
        mad0 == abs_dev[(Len(abs_dev) \div 2) + 1]
    IN  Suspects(vals, mean, IF var > 0 THEN Sqrt(var) ELSE Scale, median,
                 IF mad0 # 0 THEN mad0 ELSE Scale)

\* The variance of line 150 about the mean.
Variance(vals, mean) ==
    DivN(SumSeq([i \in DOMAIN vals |-> Mul(vals[i] - mean, vals[i] - mean)]),
         Max2(1, Len(vals) - 1))

\* detect_poisoning_rows(rows), rows given by their targets.
detect_poisoning_rows(vals) ==
    IF Len(vals) < 3 THEN << >>
    ELSE Screened(vals, DivN(SumSeq(vals), Len(vals)),
                  Variance(vals, DivN(SumSeq(vals), Len(vals))),
                  sorted(vals))

\* The targets of clean rows, and the outliers put in their place.
CleanTargets == {1000, 1010}

OutlierTargets == {20000, -20000}

\* One more row of the clean base is replaced with the outlier and the
\* list is screened again.
InjectOutlier ==
    LET r == comp.poison
    IN  /\ \E i \in DOMAIN r.rows :
            /\ i \notin r.replaced
            /\ LET more == [r.rows EXCEPT ![i] = r.outlier]
               IN  comp' = [comp EXCEPT
                      !.poison.rows = more,
                      !.poison.replaced = @ \cup {i},
                      !.poison.counts = Append(@, Len(detect_poisoning_rows(more)))]
        /\ UNCHANGED << engine_vars, ev >>

InitPoison ==
    /\ Constructed(DefaultConfig, 0, DefaultRegistry(DefaultConfig))
    /\ ev = << >>
    /\ \E n \in 3..MaxPoisonRows : \E clean \in [1..n -> CleanTargets] :
       \E outlier \in OutlierTargets :
          comp = [NoComponents EXCEPT
                     !.poison = [rows |-> clean, outlier |-> outlier, replaced |-> {},
                                 counts |-> << Len(detect_poisoning_rows(clean)) >>]]

NextPoison == InjectOutlier

SpecPoison == InitPoison /\ [][NextPoison]_vars

\* C23: for any clean base, replacing strictly more rows with outliers
\* never decreases the number of suspects: counts[k + 1] is the number of
\* suspects with k rows replaced.
C23_PoisoningMonotone ==
    LET r == comp.poison
    IN  r # << >> =>
          \A k \in DOMAIN r.counts, m \in DOMAIN r.counts :
              k <= m => r.counts[k] <= r.counts[m]

\* What the code keeps: while fewer than half of the rows (fewer than
\* len // 2 + 1 of the sorted positions) are outliers the count does not
\* decrease.
C23_MonotoneBelowHalf ==
    LET r == comp.poison
    IN  r # << >> =>
          \A k \in DOMAIN r.counts, m \in DOMAIN r.counts :
              (k <= m /\ 2 * (m - 1) < Len(r.rows)) => r.counts[k] <= r.counts[m]

\* ------------------------------------------------------------------------
\* game.py: two runs and their (seed, config) fingerprints

\* Two engines, engine e constructed with configuration c[e] and seed s[e],
\* neither yet run.
ConstructedEach(c, s) ==
    /\ config = c
    /\ seed = s
    /\ registry = [e \in Engines |-> DefaultRegistry(c[e])]
    /\ rng = [e \in Engines |-> RandomSeeded(s[e])]
    /\ pc = [e \in Engines |-> "idle"]
    /\ args = [e \in Engines |-> NoArgs]
    /\ n_rounds = [e \in Engines |-> 0]
    /\ idx = [e \in Engines |-> 0]
    /\ state = [e \in Engines |-> NoArgs.initial]
    /\ refactor_bias = [e \in Engines |-> 0]
    /\ cumulative_rewards = [e \in Engines |-> EmptyMapping]
    /\ steps = [e \in Engines |-> << >>]
    /\ trajectories = [e \in Engines |-> << >>]
    /\ trajectory_logs = [e \in Engines |-> << >>]
    /\ forecasts = [e \in Engines |-> << >>]
    /\ targets = [e \in Engines |-> << >>]
    /\ confidence = [e \in Engines |-> << >>]
    /\ convergence = [e \in Engines |-> NoConvergence]
    /\ halted = [e \in Engines |-> FALSE]
    /\ last_round = [e \in Engines |-> NoRound]

\* The configurations the two runs are taken from.
FingerprintConfigs ==
    {c \in Configs : /\ c.max_rounds = MaxRounds /\ c.horizon = MaxRounds + 1
                     /\ c.enable_refactor /\ c.disturbance_model = "gaussian"
                     /\ c.disturbance_prob \in {0, 500}}

InitFingerprint ==
    /\ \E c \in [Engines -> FingerprintConfigs], s \in [Engines -> Seeds] :
          ConstructedEach(c, s)
    /\ ev = << >>
    /\ comp = NoComponents

SpecFingerprint == InitFingerprint /\ [][Next]_vars

\* The (seed, config) fingerprint of engine e's run.
Fingerprint(e) == << seed[e], config[e] >>

\* C24 as stated: two runs have equal fingerprints if and only if their
\* forecasts and targets are identical.
C24_FingerprintIffOutputs ==
    BothReturned =>
        (Fingerprint(1) = Fingerprint(2)
            <=> (forecasts[1] = forecasts[2] /\ targets[1] = targets[2]))

\* C24 amended: two runs with equal fingerprints and equal arguments give
\* identical forecasts and targets when neither was cut short by the round
\* timeout, and otherwise the outputs of one are a prefix of the other's.
\* Nothing follows from different fingerprints.
C24_EqualFingerprintUpToTimeout ==
    (BothReturned /\ Fingerprint(1) = Fingerprint(2)) =>
        /\ (~halted[1] /\ ~halted[2]) =>
              forecasts[1] = forecasts[2] /\ targets[1] = targets[2]
        /\ \/ IsPrefix(forecasts[1], forecasts[2]) /\ IsPrefix(targets[1], targets[2])
           \/ IsPrefix(forecasts[2], forecasts[1]) /\ IsPrefix(targets[2], targets[1])

\* Two full disturbed noisy runs with one fingerprint and the same outputs.
C24_Witness ==
    /\ BothReturned
    /\ Fingerprint(1) = Fingerprint(2)
    /\ ~halted[1] /\ ~halted[2]
    /\ args[1].disturbed /\ config[1].base_noise_std > 0
    /\ Len(forecasts[1]) = MaxRounds
    /\ forecasts[1] = forecasts[2] /\ targets[1] = targets[2]
    /\ targets[1][1] # targets[1][2]

\* ------------------------------------------------------------------------
\* scenarios.py: ScenarioGenerator.generate

\* The most replications of one fan.
MaxReplications == 11

\* A faulty variant of TopClamped: the rank is taken among n - 1 gaps, and
\* nothing is clamped.
TopClampedNearestRank(n, q) == ((n - 1) * q) \div 100

\* max(0, min(n - 1, int(n * q))) for q in hundredths: the index of p75 and p90.
TopClamped(n, q) == Max2(0, Min2(n - 1, IntOfShare(n, q)))

\* max(0, int(n * q)): the index of p10, p25 and p50.
Unclamped(n, q) == Max2(0, IntOfShare(n, q))

\* sorted(f[t] for f in all_forecasts if t < len(f)), t counted from 0.
ValuesAt(all_forecasts, t) ==
    sorted([k \in 1..Len(SelectSeq(all_forecasts, LAMBDA f : t < Len(f))) |->
               SelectSeq(all_forecasts, LAMBDA f : t < Len(f))[k][t + 1]])

\* Lines 52-59: the five percentile rows for nr rounds.
Percentiles(all_forecasts, nr) ==
    [p10 |-> [t \in 1..nr |->
                 ValuesAt(all_forecasts, t - 1)[
                     Unclamped(Len(ValuesAt(all_forecasts, t - 1)), 10) + 1]],
     p25 |-> [t \in 1..nr |->
                 ValuesAt(all_forecasts, t - 1)[
                     Unclamped(Len(ValuesAt(all_forecasts, t - 1)), 25) + 1]],
     p50 |-> [t \in 1..nr |->
                 ValuesAt(all_forecasts, t - 1)[
                     Unclamped(Len(ValuesAt(all_forecasts, t - 1)), 50) + 1]],
     p75 |-> [t \in 1..nr |->
                 ValuesAt(all_forecasts, t - 1)[
                     TopClamped(Len(ValuesAt(all_forecasts, t - 1)), 75) + 1]],
     p90 |-> [t \in 1..nr |->
                 ValuesAt(all_forecasts, t - 1)[
                     TopClamped(Len(ValuesAt(all_forecasts, t - 1)), 90) + 1]]]

\* Lines 61-65: the mean of the replications' mean absolute errors.
MeanMae(all_forecasts, all_targets) ==
    DivN(SumSeq([k \in DOMAIN all_forecasts |->
                    IF all_forecasts[k] # << >> /\ all_targets[k] # << >>
                    THEN DivN(SumSeq([i \in 1..Min2(Len(all_forecasts[k]),
                                                    Len(all_targets[k])) |->
                                         Abs(all_forecasts[k][i] - all_targets[k][i])]),
                              Len(all_forecasts[k]))
                    ELSE 0]),
         Max2(1, Len(all_forecasts)))

\* ScenarioFan(...) of lines 41-47 and 67-76.
ScenarioFan(n_replications, all_forecasts, all_targets) ==
    IF all_forecasts = << >> \/ all_forecasts[1] = << >>
    THEN [n_replications |-> n_replications, n_rounds |-> 0,
          percentiles |-> [p10 |-> << >>, p25 |-> << >>, p50 |-> << >>,
                           p75 |-> << >>, p90 |-> << >>],
          mean_mae |-> 0]
    ELSE [n_replications |-> n_replications, n_rounds |-> Len(all_forecasts[1]),
          percentiles |-> Percentiles(all_forecasts, Len(all_forecasts[1])),
          mean_mae |-> MeanMae(all_forecasts, all_targets)]

\* One replication: lines 35-39.
Replicate ==
    LET r == comp.fan
    IN  /\ r.fan = None
        /\ r.rep < r.n_replications
        /\ \E elapsed \in ElapsedRuns(r.config) :
            LET out == ForecastGame_run(r.config, r.base_seed + r.rep, r.initial,
                                        TRUE, elapsed)
            IN  comp' = [comp EXCEPT
                           !.fan.all_forecasts = Append(@, out.forecasts),
                           !.fan.all_targets = Append(@, out.targets),
                           !.fan.rep = @ + 1]
        /\ UNCHANGED << engine_vars, ev >>

\* The fan is computed and returned: lines 41-76.
FanReturn ==
    LET r == comp.fan
    IN  /\ r.fan = None
        /\ r.rep >= r.n_replications
        /\ comp' = [comp EXCEPT !.fan.fan =
                       Some(ScenarioFan(r.n_replications, r.all_forecasts, r.all_targets))]
        /\ UNCHANGED << engine_vars, ev >>

\* The configurations of the fan: runs of one round that the round timeout
\* may cut to none, and runs of several rounds with a budget of 5 s that
\* no round of ElapsedValues exceeds.
FanConfigs ==
    {c \in RunnerConfigs : c.horizon = 1} \cup
    {[c EXCEPT !.max_round_timeout_s = 5000] : c \in {x \in RunnerConfigs : x.horizon > 1}}

InitFan ==
    /\ Constructed(DefaultConfig, 0, DefaultRegistry(DefaultConfig))
    /\ ev = << >>
    /\ \E cfg \in FanConfigs, n \in 0..MaxReplications :
          comp = [NoComponents EXCEPT
                     !.fan = [config |-> cfg, n_replications |-> n, base_seed |-> 0,
                              initial |-> ForecastState(0, 10000, 0, 0), rep |-> 0,
                              all_forecasts |-> << >>, all_targets |-> << >>,
                              fan |-> None]]

NextFan == Replicate \/ FanReturn

SpecFan == InitFan /\ [][NextFan]_vars

\* C25 as stated: with n replications contributing at a round the p90
\* element is sorted_forecasts[min(n - 1, int(n * 0.9))], and for every n
\* from 2 to 10 that index is not the index n - 1 of the largest forecast.
C25_P90NeverTop ==
    LET r == comp.fan
    IN  (r # << >> /\ r.fan # None) =>
          \A t \in 1..r.fan[1].n_rounds :
             LET values == ValuesAt(r.all_forecasts, t - 1)
                 n == Len(values)
             IN  /\ r.fan[1].percentiles.p90[t] = values[Min2(n - 1, IntOfShare(n, 90)) + 1]
                 /\ (2 <= n /\ n <= 10) => Min2(n - 1, IntOfShare(n, 90)) # n - 1

\* C25 amended: the p90 element is sorted_forecasts[min(n - 1, int(n * 0.9))];
\* for every n from 1 to 10 that index is n - 1, so p90 is the largest of
\* the n forecasts, and at n = 11 it is the index 9 below the top.
C25_P90IsTopUpToTen ==
    LET r == comp.fan
    IN  (r # << >> /\ r.fan # None) =>
          \A t \in 1..r.fan[1].n_rounds :
             LET values == ValuesAt(r.all_forecasts, t - 1)
                 n == Len(values)
             IN  /\ r.fan[1].percentiles.p90[t] = values[Min2(n - 1, IntOfShare(n, 90)) + 1]
                 /\ (1 <= n /\ n <= 10) =>
                       /\ Min2(n - 1, IntOfShare(n, 90)) = n - 1
                       /\ \A k \in DOMAIN values : values[k] <= r.fan[1].percentiles.p90[t]
                 /\ n = 11 => Min2(n - 1, IntOfShare(n, 90)) = 9

\* A fan of five replications contributing to its second round, whose p90
\* is the largest forecast, above its p50, itself above its p10.
C25_Witness ==
    LET r == comp.fan
    IN  /\ r # << >> /\ r.fan # None
        /\ r.fan[1].n_rounds = 2
        /\ Len(ValuesAt(r.all_forecasts, 1)) = 5
        /\ r.fan[1].percentiles.p90[2] = ValuesAt(r.all_forecasts, 1)[5]
        /\ r.fan[1].percentiles.p10[2] < r.fan[1].percentiles.p50[2]
        /\ r.fan[1].percentiles.p50[2] < r.fan[1].percentiles.p90[2]

\* ------------------------------------------------------------------------
\* game.py, agents.py: the refactor bias across the rounds of a run

\* target - forecast of the k-th recorded round of engine e.
ErrorOf(e, k) == trajectory_logs[e][k].target - trajectory_logs[e][k].forecast

\* The refactor_bias that entered the forecast of the k-th recorded round
\* of engine e: forecast - state.value - the three deltas (line 149).
BiasUsed(e, k) ==
    trajectory_logs[e][k].forecast - trajectory_logs[e][k].state.value
        - SumDeltas(trajectory_logs[e][k].actions)

\* The adjustment C26 states for an error: step_size toward the target.
TowardTarget(error, step_size) ==
    IF error > 0 THEN step_size ELSE IF error < 0 THEN -step_size ELSE 0

\* C26: with refactor enabled (non-LLM mode) refactor_bias increases by
\* step_size after a round with error > 0 and decreases by step_size after
\* a round with error < 0, and the adjustment of round i is first used in
\* the forecast of round i + 1: the bias used in the first round is 0 and
\* the bias used in each later round is the one before plus the adjustment
\* for the error before.
C26_BiasTowardTarget ==
    \A e \in Engines :
        (config[e].enable_refactor /\ ~config[e].enable_llm_refactor) =>
            \A k \in DOMAIN trajectory_logs[e] :
                /\ k = 1 => BiasUsed(e, k) = 0
                /\ (k > 1 /\ ErrorOf(e, k - 1) # 0) =>
                      BiasUsed(e, k) = BiasUsed(e, k - 1)
                          + TowardTarget(ErrorOf(e, k - 1),
                                         registry[e].refactorer[1].step_size)

\* What the code does: the adjustment of round i is first used in round
\* i + 1, and it is -step_size after an error > 0 and +step_size after an
\* error <= 0, which moves the next forecast away from the target.
C26_BiasAwayFromTarget ==
    \A e \in Engines :
        (config[e].enable_refactor /\ ~config[e].enable_llm_refactor) =>
            \A k \in DOMAIN trajectory_logs[e] :
                /\ k = 1 => BiasUsed(e, k) = 0
                /\ k > 1 =>
                      BiasUsed(e, k) = BiasUsed(e, k - 1)
                          + (IF ErrorOf(e, k - 1) > 0
                             THEN -registry[e].refactorer[1].step_size
                             ELSE registry[e].refactorer[1].step_size)

\* ------------------------------------------------------------------------
\* agents.py: EnsembleAggregatorAgent.aggregate called on its own

\* The longest action list aggregated.
MaxActions == 2

\* The actors, deltas and cumulative rewards of the calls.
EnsembleActors == {"bottom_up", "top_down"}

EnsembleDeltas == {-1000, 500, 2000}

EnsembleRewards == {-2000, -1000, 500}

\* The action lists of length at most n.
RECURSIVE ActionLists(_)
ActionLists(n) ==
    IF n = 0 THEN {<< >>}
    ELSE ActionLists(n - 1) \cup
         {Append(l, AgentAction(a, d)) :
             l \in {x \in ActionLists(n - 1) : Len(x) = n - 1},
             a \in EnsembleActors, d \in EnsembleDeltas}

\* The reward histories: each a mapping from some of the actors.
RewardHistories ==
    UNION {[ks -> EnsembleRewards] : ks \in SUBSET EnsembleActors}

\* The engine's aggregator is asked for one action.
CallAggregate ==
    LET r == comp.ensemble
    IN  /\ r.result = None
        /\ comp' = [comp EXCEPT !.ensemble.result =
              Some(EnsembleAggregatorAgent_aggregate(r.agent, r.actions, r.reward_history))]
        /\ UNCHANGED << engine_vars, ev >>

InitEnsemble ==
    /\ Constructed(DefaultConfig, 0, DefaultRegistry(DefaultConfig))
    /\ ev = << >>
    /\ \E actions \in ActionLists(MaxActions), reward_history \in RewardHistories :
          comp = [NoComponents EXCEPT
                     !.ensemble = [agent |-> EnsembleAggregatorAgent("reward_proportional"),
                                   actions |-> actions, reward_history |-> reward_history,
                                   result |-> None]]

NextEnsemble == CallAggregate

SpecEnsemble == InitEnsemble /\ [][NextEnsemble]_vars

\* C27: in mode reward_proportional, on a non-empty action list with a
\* non-empty reward history the result lies between the smallest and the
\* largest input delta; on an empty action list it is delta 0.
C27_WithinInputDeltas ==
    LET r == comp.ensemble
    IN  (r # << >> /\ r.result # None) =>
          IF r.actions = << >> THEN r.result[1].delta = 0
          ELSE r.reward_history # EmptyMapping =>
                 /\ \E i \in DOMAIN r.actions : r.actions[i].delta <= r.result[1].delta
                 /\ \E i \in DOMAIN r.actions : r.result[1].delta <= r.actions[i].delta

\* What the code keeps: the same whenever some weight max(0, reward + 1) is
\* positive; when every weight is 0 the result is delta 0.
C27_WithinUnlessAllWeightsZero ==
    LET r == comp.ensemble
        positive == {i \in DOMAIN r.actions :
                        GetOr0(r.reward_history, r.actions[i].actor) + Scale > 0}
    IN  (r # << >> /\ r.result # None) =>
          IF r.actions = << >> THEN r.result[1].delta = 0
          ELSE r.reward_history # EmptyMapping =>
                 IF positive = {} THEN r.result[1].delta = 0
                 ELSE /\ \E i \in positive : r.actions[i].delta <= r.result[1].delta
                      /\ \E i \in positive : r.result[1].delta <= r.actions[i].delta

\* ------------------------------------------------------------------------
\* game.py: the shape of what run() returns

\* C29: on every return of run(), after a timeout too, steps, trajectories,
\* trajectory_logs, forecasts, targets and confidence all have length
\* rounds_executed <= max(0, min(requested_rounds, max_rounds)), entry i of
\* trajectories has round_idx i and t = initial.t + i, the first holds the
\* initial state, each next one holds the previous step's next_state, and
\* targets[i] is steps[i].next_state.value.
C29_WellFormedOutputs ==
    \A e \in Engines :
      pc[e] = "returned" =>
          LET k == Len(steps[e])
              requested_rounds == IF args[e].rounds # None THEN args[e].rounds[1]
                                  ELSE config[e].horizon
          IN  /\ convergence[e].rounds_executed = k
              /\ Len(trajectories[e]) = k
              /\ Len(trajectory_logs[e]) = k
              /\ Len(forecasts[e]) = k
              /\ Len(targets[e]) = k
              /\ Len(confidence[e]) = k
              /\ k <= Max2(0, Min2(requested_rounds, config[e].max_rounds))
              /\ \A i \in 1..k :
                    /\ trajectories[e][i].round_idx = i - 1
                    /\ trajectories[e][i].state.t = args[e].initial.t + (i - 1)
                    /\ targets[e][i] = steps[e][i].next_state.value
                    /\ i = 1 => trajectories[e][i].state = args[e].initial
                    /\ i < k => trajectories[e][i + 1].state = steps[e][i].next_state

\* A run from a state with t = 11 that recorded a round and was then stopped
\* by the timeout, and has returned.
C29_Witness ==
    /\ pc[1] = "returned"
    /\ halted[1]
    /\ args[1].initial.t = 11
    /\ Len(steps[1]) >= 1
    /\ Len(steps[1]) < n_rounds[1]
    /\ trajectories[1][1].state.t = 11

\* ------------------------------------------------------------------------
\* game.py: run() called again on an engine that has already run

\* The most runs made on the engine before the one compared.
MaxReuse == 2

\* No timeout budget that the stream does not reach; rounds is always given.
ReuseConfigs == {c \in RunnerConfigs : c.horizon = 1}

ReuseArgs ==
    {a \in RunArgs : a.rounds # None /\ a.disturbed /\ a.initial.t = 0}

\* game.run(...) on engine 1, for the first time or again.
ReuseRun == \E a \in ReuseArgs : Enter(1, a)

\* A faulty variant of HandBack: the engine's stream is reseeded between
\* the calls.
HandBackReseeded ==
    /\ pc[1] = "returned"
    /\ pc[2] = "idle"
    /\ Len(comp.reuse.history) < MaxReuse
    /\ pc' = [pc EXCEPT ![1] = "idle"]
    /\ rng' = [rng EXCEPT ![StreamOf(1)] = RandomSeeded(seed[1])]
    /\ comp' = [comp EXCEPT !.reuse.history = Append(@,
                  [n_rounds |-> n_rounds[1], rounds_executed |-> Len(steps[1]),
                   rng |-> rng[StreamOf(1)], calls |-> comp.reuse.calls[1]])]
    /\ UNCHANGED << config, seed, registry, args, n_rounds, idx, state,
                    refactor_bias, cumulative_rewards, steps, trajectories,
                    trajectory_logs, forecasts, targets, confidence,
                    convergence, halted, last_round, ev >>

\* The caller has the outputs of a run of engine 1 and goes on to call run()
\* on the same engine: the loop of test_confidence_interval_invariant_property.
\* history keeps, per finished run, its n_rounds, the rounds it recorded, the
\* stream it left and the calls made on that stream since the engine was
\* constructed.
HandBack ==
    /\ pc[1] = "returned"
    /\ pc[2] = "idle"
    /\ Len(comp.reuse.history) < MaxReuse
    /\ pc' = [pc EXCEPT ![1] = "idle"]
    /\ comp' = [comp EXCEPT !.reuse.history = Append(@,
                  [n_rounds |-> n_rounds[1], rounds_executed |-> Len(steps[1]),
                   rng |-> rng[StreamOf(1)], calls |-> comp.reuse.calls[1]])]
    /\ UNCHANGED << config, seed, registry, rng, args, n_rounds, idx, state,
                    refactor_bias, cumulative_rewards, steps, trajectories,
                    trajectory_logs, forecasts, targets, confidence,
                    convergence, halted, last_round, ev >>

\* One iteration of the round loop of engine e, the calls it makes on the
\* engine's stream counted.
ReuseRound(e) ==
    /\ pc[e] = "running"
    /\ ~halted[e]
    /\ idx[e] < n_rounds[e]
    /\ \E elapsed \in ElapsedValues :
         LET body == RoundBody(config[e], registry[e], rng[StreamOf(e)], state[e],
                               refactor_bias[e], cumulative_rewards[e], idx[e],
                               args[e].disturbed, elapsed)
         IN  /\ Commit(e, elapsed, body)
             /\ comp' = [comp EXCEPT !.reuse.calls[e] = @ + Len(body.draws)]
    /\ UNCHANGED << config, seed, registry, args, n_rounds, convergence, ev >>

InitReuse ==
    /\ \E c \in ReuseConfigs, s \in Seeds : Constructed(c, s, DefaultRegistry(c))
    /\ ev = << >>
    /\ comp = [NoComponents EXCEPT
                !.reuse = [history |-> << >>, calls |-> [e \in Engines |-> 0]]]

\* Engine 1 is run up to MaxReuse + 1 times; engine 2, fresh, is then run
\* once with the arguments of engine 1's last run.
NextReuse ==
    \/ ReuseRun
    \/ HandBack
    \/ RunSecond
    \/ \E e \in Engines : ReuseRound(e)
    \/ \E e \in Engines : Return(e)

SpecReuse == InitReuse /\ [][NextReuse]_vars

\* The stream engine 1 had when its current run() was entered.
StreamAtEntry ==
    LET h == comp.reuse.history
    IN  IF h = << >> THEN RandomSeeded(seed[1]) ELSE h[Len(h)].rng

\* The calls made on engine 1's stream before its current run() was entered.
CallsAtEntry ==
    LET h == comp.reuse.history
    IN  IF h = << >> THEN 0 ELSE h[Len(h)].calls

\* Every earlier run of engine 1 had n_rounds = 0.
OnlyZeroRoundRuns ==
    \A i \in DOMAIN comp.reuse.history : comp.reuse.history[i].n_rounds = 0

\* Each run() of engine 1 starts with refactor_bias 0 and no cumulative
\* rewards, on the stream the previous run left; that stream is the seed's,
\* no call made on it, when every earlier run had n_rounds = 0, and has had
\* calls made on it once an earlier run has started a round.
ReuseFrame ==
    /\ (pc[1] = "running" /\ idx[1] = 0 /\ ~halted[1]) =>
          /\ refactor_bias[1] = 0
          /\ cumulative_rewards[1] = EmptyMapping
          /\ rng[StreamOf(1)] = StreamAtEntry
          /\ comp.reuse.calls[1] = CallsAtEntry
    /\ OnlyZeroRoundRuns =>
          CallsAtEntry = 0 /\ StreamAtEntry = RandomSeeded(seed[1])
    /\ ~OnlyZeroRoundRuns => CallsAtEntry > 0

\* C30: each run() restarts refactor_bias and the cumulative rewards at zero
\* and leaves the stream where the previous run() left it; a run that
\* follows only zero-round runs returns what the run of a fresh engine with
\* the same seed returns, and a run that follows a run of one round or more
\* starts from an advanced stream.
C30_EngineReuse ==
    comp.reuse # << >> =>
       /\ ReuseFrame
       /\ (BothReturned /\ OnlyZeroRoundRuns) =>
             /\ steps[1] = steps[2]
             /\ forecasts[1] = forecasts[2]
             /\ targets[1] = targets[2]
             /\ confidence[1] = confidence[2]
             /\ convergence[1] = convergence[2]

\* C30 amended: the same, the equality with the fresh engine's run holding
\* when the round timeout stopped neither run; in every case the outputs of
\* one of the two runs are a prefix of the other's.
C30_EngineReuseUpToTimeout ==
    comp.reuse # << >> =>
       /\ ReuseFrame
       /\ (BothReturned /\ OnlyZeroRoundRuns) =>
             /\ (~halted[1] /\ ~halted[2]) =>
                   /\ steps[1] = steps[2]
                   /\ forecasts[1] = forecasts[2]
                   /\ targets[1] = targets[2]
                   /\ confidence[1] = confidence[2]
                   /\ convergence[1] = convergence[2]
             /\ IsPrefix(steps[1], steps[2]) \/ IsPrefix(steps[2], steps[1])
             /\ IsPrefix(forecasts[1], forecasts[2]) \/ IsPrefix(forecasts[2], forecasts[1])

\* Engine 1 ran two zero-round runs and then MaxRounds rounds, and the fresh
\* engine ran the same MaxRounds rounds.
C30_Witness ==
    /\ comp.reuse # << >>
    /\ BothReturned
    /\ Len(comp.reuse.history) = 2
    /\ OnlyZeroRoundRuns
    /\ Len(forecasts[1]) = MaxRounds
    /\ Len(forecasts[2]) = MaxRounds

\* Engine 1 runs again after a run whose first round the timeout stopped:
\* the earlier run recorded no round and left the stream advanced.
C30_WitnessAdvanced ==
    /\ comp.reuse # << >>
    /\ pc[1] = "running"
    /\ idx[1] = 0
    /\ ~halted[1]
    /\ Len(comp.reuse.history) = 1
    /\ comp.reuse.history[1].rounds_executed = 0
    /\ comp.reuse.history[1].n_rounds > 0
    /\ comp.reuse.calls[1] > 0

=============================================================================
